---- MODULE Spec2Model ----
(***************************************************************************)
(* Glyph: two character-encoded virtual machines.                          *)
(*   - the three-operand engine glyph_run   (src/glyph.h), state vm        *)
(*   - the accumulator engine   glyph_eval  (src/unnamed/part_001), state  *)
(*     ev                                                                  *)
(* One behaviour runs one engine (variable engine) on one program.  The     *)
(* variable calls is the sequence of the calls the engine has made to the  *)
(* host's port callbacks, and returned tells that the engine's run has     *)
(* returned to its caller.                                                 *)
(***************************************************************************)
EXTENDS Integers, Sequences, FiniteSets, TLC

VARIABLES engine, vm, ev, last, calls, returned

vars == <<engine, vm, ev, last, calls, returned>>

(***************************************************************************)
(* Bounds of the model.                                                    *)
(***************************************************************************)
\* the memory handed to glyph_init holds 2^MemBits bytes
MemBits == 6
\* operand values of the parameterised programs range over 0..MaxVal
MaxVal == 2
\* a whole run of glyph_run is followed for at most MaxSteps iterations
MaxSteps == 32

(***************************************************************************)
(* Bytes and characters.                                                   *)
(***************************************************************************)
\* the character code of each one-character string: the printable
\* characters 32..95 and 97..126 (96, the backquote, cannot be written in a
\* string and is named BACKQUOTE below)
OrdTable ==
    LET low  == " !\"#$%&'()*+,-./0123456789:;<=>?@ABCDEFGHIJKLMNOPQRSTUVWXYZ[\\]^_"
        high == "abcdefghijklmnopqrstuvwxyz{|}~"
    IN  [c \in {SubSeq(low, i, i) : i \in 1..Len(low)}
                \cup {SubSeq(high, i, i) : i \in 1..Len(high)} |->
            IF \E i \in 1..Len(high) : SubSeq(high, i, i) = c
            THEN 96 + CHOOSE i \in 1..Len(high) : SubSeq(high, i, i) = c
            ELSE 31 + CHOOSE i \in 1..Len(low) : SubSeq(low, i, i) = c]

Ord(c) == OrdTable[c]

\* the bytes of a C string literal (without its terminating 0)
Bytes(s) == [i \in 1..Len(s) |-> Ord(SubSeq(s, i, i))]

Byte == 0..255

\* isspace() of <ctype.h> in the C locale: \t \n \v \f \r and space
isspace(b) == b \in {9, 10, 11, 12, 13, 32}

RECURSIVE Pow2(_)
Pow2(n) == IF n = 0 THEN 1 ELSE 2 * Pow2(n - 1)

(***************************************************************************)
(* uint32_t.  A word is <<hi, lo>>, two 16-bit halves (the value is        *)
(* hi * 2^16 + lo), so that no intermediate result leaves the integers the *)
(* model checker computes with.                                            *)
(***************************************************************************)
Half == 65536

W(n) == <<(n \div Half) % Half, n % Half>>

WZero == <<0, 0>>

\* an addition that saturates at 2^32 - 1 instead of wrapping
WAddSaturating(x, y) ==
    IF x[1] + y[1] + ((x[2] + y[2]) \div Half) >= Half THEN <<Half - 1, Half - 1>>
    ELSE <<x[1] + y[1] + ((x[2] + y[2]) \div Half), (x[2] + y[2]) % Half>>

WAdd(x, y) ==
    LET lo == x[2] + y[2]
    IN  <<(x[1] + y[1] + (lo \div Half)) % Half, lo % Half>>

WSub(x, y) ==
    LET borrow == IF x[2] < y[2] THEN 1 ELSE 0
    IN  <<(x[1] - y[1] - borrow + (2 * Half)) % Half, (x[2] - y[2] + Half) % Half>>

\* a * b mod 2^16 for 16-bit a, b
MulMod16(a, b) == (((a % 256) * b) + ((((a \div 256) * b) % 256) * 256)) % Half

WMul(x, y) ==
    LET p0 == (x[2] % 256) * y[2]
        p1 == (x[2] \div 256) * y[2]
        s  == p0 + ((p1 % 256) * 256)
        cross == (MulMod16(x[1], y[2]) + MulMod16(x[2], y[1])) % Half
    IN  <<((s \div Half) + (p1 \div 256) + cross) % Half, s % Half>>

\* x <= y
WLe(x, y) == x[1] < y[1] \/ (x[1] = y[1] /\ x[2] <= y[2])

\* unsigned division of x by d # 0: <<quotient, remainder>>.  Operands below
\* 2^31 are divided as integers; a dividend of 2^31 or more is halved first
\* (h) and the lost bit brought back; a divisor of 2^31 or more goes at most
\* once.
WDivMod(x, d) ==
    LET n    == (d[1] * Half) + d[2]
        h    == ((x[1] \div 2) * Half) + (x[2] \div 2) + ((x[1] % 2) * 32768)
        r2   == WAdd(WAdd(W(h % n), W(h % n)), W(x[2] % 2))
        fits == WLe(d, r2)
    IN  IF d[1] >= 32768
        THEN IF WLe(d, x) THEN <<W(1), WSub(x, d)>> ELSE <<WZero, x>>
        ELSE IF x[1] < 32768
        THEN <<W(((x[1] * Half) + x[2]) \div n), W(((x[1] * Half) + x[2]) % n)>>
        ELSE <<WAdd(WAdd(W(h \div n), W(h \div n)), W(IF fits THEN 1 ELSE 0)),
               IF fits THEN WSub(r2, d) ELSE r2>>

RECURSIVE BitAnd(_, _)
BitAnd(a, b) ==
    IF a = 0 \/ b = 0 THEN 0
    ELSE ((a % 2) * (b % 2)) + (2 * BitAnd(a \div 2, b \div 2))

BitOr(a, b) == a + b - BitAnd(a, b)

BitXor(a, b) == a + b - (2 * BitAnd(a, b))

WAnd(x, y) == <<BitAnd(x[1], y[1]), BitAnd(x[2], y[2])>>

WOr(x, y) == <<BitOr(x[1], y[1]), BitOr(x[2], y[2])>>

WXor(x, y) == <<BitXor(x[1], y[1]), BitXor(x[2], y[2])>>

WNot(x) == <<Half - 1 - x[1], Half - 1 - x[2]>>

\* x << n and x >> n for a count 0 <= n < 32
WShl(x, n) ==
    IF n >= 16 THEN <<(x[2] * Pow2(n - 16)) % Half, 0>>
    ELSE <<(((x[1] * Pow2(n)) % Half) + ((x[2] * Pow2(n)) \div Half)) % Half,
           (x[2] * Pow2(n)) % Half>>

WShr(x, n) ==
    IF n >= 16 THEN <<0, x[1] \div Pow2(n - 16)>>
    ELSE <<x[1] \div Pow2(n),
           ((x[2] \div Pow2(n)) + ((x[1] % Pow2(n)) * Pow2(16 - n))) % Half>>

\* A shift by the width of the type or more is undefined in C: the build
\* either masks the count to five bits (x86) or produces 0.
ShlOutcomes(x, c) ==
    IF c[1] = 0 /\ c[2] < 32 THEN {WShl(x, c[2])} ELSE {WShl(x, c[2] % 32), WZero}

ShrOutcomes(x, c) ==
    IF c[1] = 0 /\ c[2] < 32 THEN {WShr(x, c[2])} ELSE {WShr(x, c[2] % 32), WZero}

\* the four bytes of a word, least significant first
WBytes(x) == <<x[2] % 256, x[2] \div 256, x[1] % 256, x[1] \div 256>>

WFromBytes(b0, b1, b2, b3) == <<(b3 * 256) + b2, (b1 * 256) + b0>>

(***************************************************************************)
(* The three-operand engine (src/glyph.h).  Its state v is the Glyph       *)
(* struct: mem (the caller's buffer, 0..size-1), size, reg (128 words),    *)
(* port (256 words) and halt.                                              *)
(***************************************************************************)
DOT == Ord(".")

COMMA == Ord(",")

TILDE == Ord("~")

COLON == Ord(":")

QUERY == Ord("?")

SEMI == Ord(";")

\* #define R(x)  vm->reg[(x) & 127]
R(v, x) == v.reg[BitAnd(x, 127)]

SetR(v, x, w) == [v EXCEPT !.reg[BitAnd(x, 127)] = w]

\* the index taken modulo the mask instead of masked
MIndexModulo(v, w) == w[2] % (v.size - 1)

\* #define M(x)  vm->mem[(x) & (vm->size - 1)], the index of the cell
MIndex(v, w) == BitAnd(w[2], v.size - 1)

M(v, w) == v.mem[MIndex(v, w)]

\* a store that never reaches the cell
SetMLost(v, w, x) == v

\* a store into a uint8_t cell keeps the low byte of the word
SetM(v, w, x) == [v EXCEPT !.mem[MIndex(v, w)] = x[2] % 256]

\* vm->port[(x) & 255]
PortIndex(w) == BitAnd(w[2], 255)

\* #define PC  R('.')       #define glyph_sp(vm)  ((vm)->reg[','])
PC(v) == v.reg[DOT]

SP(v) == v.reg[COMMA]

\* PC < vm->size, for a word pc
Inside(v, pc) == pc[1] = 0 /\ pc[2] < v.size

\* the least element of a set of numbers
Least(S) == CHOOSE i \in S : \A j \in S : i <= j

\* the first address from i on that holds no whitespace, or size
NonSpaceFrom(v, i) == Least({j \in i..v.size : j = v.size \/ ~isspace(v.mem[j])})

\* fetch without its while loop: the PC stays where it is
SkipNothing(v) == PC(v)

\* while (PC < vm->size && isspace(vm->mem[PC])) PC++;  the PC the loop ends at
SkipEnd(v) == IF ~Inside(v, PC(v)) THEN PC(v) ELSE W(NonSpaceFrom(v, PC(v)[2]))

\* a fetch that returns vm->mem[PC] and leaves the PC on the byte it read
FetchAtStaying(v, pc) ==
    IF Inside(v, pc)
    THEN [vm |-> SetR(v, DOT, pc), b |-> v.mem[pc[2]], at |-> pc[2]]
    ELSE [vm |-> [SetR(v, DOT, pc) EXCEPT !.halt = 1], b |-> 0, at |-> -1]

\* return (PC < vm->size) ? vm->mem[PC++] : (vm->halt = 1, 0);  with PC = pc.
\* The result: the state left (vm), the byte returned (b) and the address
\* read (at; -1 when no byte is read)
FetchAt(v, pc) ==
    IF Inside(v, pc)
    THEN [vm |-> SetR(v, DOT, WAdd(pc, W(1))), b |-> v.mem[pc[2]], at |-> pc[2]]
    ELSE [vm |-> [SetR(v, DOT, pc) EXCEPT !.halt = 1], b |-> 0, at |-> -1]

fetch(v) == FetchAt(v, SkipEnd(v))

\* the operands fetched so far (p) and one more fetch (f)
Gather(p, f) == [vm |-> f.vm, args |-> Append(p.args, f.b), at |-> Append(p.at, f.at)]

GatherFetch(p) == Gather(p, fetch(p.vm))

\* n fetches in a row (a=fetch(vm); b=fetch(vm); c=fetch(vm);): the state
\* they leave, the bytes returned (args) and the addresses read (at)
RECURSIVE Fetches(_, _)
Fetches(v, n) ==
    IF n = 0 THEN [vm |-> v, args |-> <<>>, at |-> <<>>]
    ELSE GatherFetch(Fetches(v, n - 1))

\* the record of one iteration of an engine's loop: the opcode byte (op),
\* where it was read (at), the operand bytes fetched after it (args) and
\* where they were read (argat)
Trace(f, o) == [op |-> f.b, at |-> f.at, args |-> o.args, argat |-> o.at]

NoTrace == [op |-> -1, at |-> -1, args |-> <<>>, argat |-> <<>>]

\* the result of an instruction that fetched the operands o and leaves state
\* v (calls: the calls it made to the host's callbacks)
Done(v, o) == [vm |-> v, args |-> o.args, at |-> o.at, calls |-> <<>>]

ArithOps == {Ord("+"), Ord("-"), Ord("*"), Ord("/"), Ord("%")}

\* the arithmetic of a machine whose divide instruction returns all ones
\* for a zero divisor, without the test  R(c) ? ... : 0
ArithUnguarded(op, x, y) ==
    CASE op = Ord("+") -> WAdd(x, y)
      [] op = Ord("-") -> WSub(x, y)
      [] op = Ord("*") -> WMul(x, y)
      [] op = Ord("/") -> IF y = WZero THEN WNot(WZero) ELSE WDivMod(x, y)[1]
      [] op = Ord("%") -> IF y = WZero THEN x ELSE WDivMod(x, y)[2]

\* the value of  R(b) OP R(c)  for the five arithmetic opcodes
Arith(op, x, y) ==
    CASE op = Ord("+") -> WAdd(x, y)
      [] op = Ord("-") -> WSub(x, y)
      [] op = Ord("*") -> WMul(x, y)
      [] op = Ord("/") -> IF y = WZero THEN WZero ELSE WDivMod(x, y)[1]
      [] op = Ord("%") -> IF y = WZero THEN WZero ELSE WDivMod(x, y)[2]

\* a=fetch(vm); b=fetch(vm); c=fetch(vm); R(a) = R(b) OP R(c);
ArithCase(op, o) ==
    Done(SetR(o.vm, o.args[1], Arith(op, R(o.vm, o.args[2]), R(o.vm, o.args[3]))), o)

BitwiseOps == {Ord("&"), Ord("|"), Ord("^"), Ord("<"), Ord(">")}

\* the values  R(b) OP R(c)  can take for the three-operand bitwise opcodes
Bitwise(op, x, y) ==
    CASE op = Ord("&") -> {WAnd(x, y)}
      [] op = Ord("|") -> {WOr(x, y)}
      [] op = Ord("^") -> {WXor(x, y)}
      [] op = Ord("<") -> ShlOutcomes(x, y)
      [] op = Ord(">") -> ShrOutcomes(x, y)

BitwiseCase(op, o) ==
    {Done(SetR(o.vm, o.args[1], w), o) :
         w \in Bitwise(op, R(o.vm, o.args[2]), R(o.vm, o.args[3]))}

\* case '~': a=fetch(vm); b=fetch(vm); R(a) = ~R(b);
NotCase(o) == Done(SetR(o.vm, o.args[1], WNot(R(o.vm, o.args[2]))), o)

\* a load whose mode '.' reads the register as it was before the third fetch
LoadValueStale(mode, f) ==
    CASE mode = Ord("g") -> W(f.b)
      [] mode = Ord("x") ->
            IF f.b <= Ord("9") THEN W(f.b - Ord("0")) ELSE W(BitOr(f.b, 32) - Ord("a") + 10)
      [] mode = DOT -> IF BitAnd(f.b, 127) = DOT THEN W(f.at) ELSE R(f.vm, f.b)

\* the third fetch f of a load and the value it stands for:
\*   fetch(vm),  (c <= '9') ? c - '0' : (c | 32) - 'a' + 10,  R(fetch(vm))
LoadValue(mode, f) ==
    CASE mode = Ord("g") -> W(f.b)
      [] mode = Ord("x") ->
            IF f.b <= Ord("9") THEN W(f.b - Ord("0")) ELSE W(BitOr(f.b, 32) - Ord("a") + 10)
      [] mode = DOT -> R(f.vm, f.b)

LoadFetched(o, f) == Done(SetR(f.vm, o.args[1], LoadValue(o.args[2], f)), Gather(o, f))

\* case ':' after a and b are fetched:
\*   if (b == 'g') R(a) = fetch(vm); else if (b == 'x') {...} else if (b == '.') ...
LoadCase(o) ==
    IF o.args[2] \in {Ord("g"), Ord("x"), DOT} THEN LoadFetched(o, fetch(o.vm))
    ELSE Done(o.vm, o)

\* case '@': a=fetch(vm); b=fetch(vm); R(a) = M(R(b));
ReadCase(o) == Done(SetR(o.vm, o.args[1], W(M(o.vm, R(o.vm, o.args[2])))), o)

\* case '!': a=fetch(vm); b=fetch(vm); M(R(a)) = R(b);
WriteCase(o) == Done(SetM(o.vm, R(o.vm, o.args[1]), R(o.vm, o.args[2])), o)

\* case '(': a=fetch(vm); b=fetch(vm); R(a) = vm->port[R(b) & 255];
PortInCase(o) == Done(SetR(o.vm, o.args[1], o.vm.port[PortIndex(R(o.vm, o.args[2]))]), o)

\* a port write that goes to the memory cell of the same index as well
PortOutCaseMapped(o) ==
    Done(SetM([o.vm EXCEPT !.port[PortIndex(R(o.vm, o.args[1]))] = R(o.vm, o.args[2])],
              R(o.vm, o.args[1]), R(o.vm, o.args[2])), o)

\* case ')': a=fetch(vm); b=fetch(vm); vm->port[R(a) & 255] = R(b);
PortOutCase(o) ==
    Done([o.vm EXCEPT !.port[PortIndex(R(o.vm, o.args[1]))] = R(o.vm, o.args[2])], o)

\* case '.': a=fetch(vm); PC = R(a);
JumpCase(o) == Done(SetR(o.vm, DOT, R(o.vm, o.args[1])), o)

\* the condition under which case '?' executes PC++
CondSkips(sel, x, y) ==
    \/ sel = Ord("=") /\ x # y
    \/ sel = Ord("!") /\ x = y
    \/ sel = Ord(">") /\ WLe(x, y)
    \/ sel = Ord("<") /\ WLe(y, x)

\* case '?': a=fetch(vm); b=fetch(vm); c=fetch(vm); if (...) PC++;
CondCase(o) ==
    IF CondSkips(o.args[1], R(o.vm, o.args[2]), R(o.vm, o.args[3]))
    THEN Done(SetR(o.vm, DOT, WAdd(PC(o.vm), W(1))), o)
    ELSE Done(o.vm, o)

\* M(sp+0) = b[1]; M(sp+1) = b[2]; M(sp+2) = b[3]; M(sp+3) = b[4];
StoreBytes(v, sp, b) ==
    SetM(SetM(SetM(SetM(v, WAdd(sp, W(0)), W(b[1])),
                   WAdd(sp, W(1)), W(b[2])),
              WAdd(sp, W(2)), W(b[3])),
         WAdd(sp, W(3)), W(b[4]))

\* M(sp) | (M(sp+1)<<8) | (M(sp+2)<<16) | (M(sp+3)<<24)
LoadBytes(v, sp) ==
    WFromBytes(M(v, WAdd(sp, W(0))), M(v, WAdd(sp, W(1))),
               M(v, WAdd(sp, W(2))), M(v, WAdd(sp, W(3))))

\* a push that clears a fifth byte above the return address
PushPCWide(v) ==
    SetM(StoreBytes(v, SP(v), WBytes(PC(v))), WAdd(SP(v), W(4)), W(0))

\* glyph_sp(vm) -= 4;  then the PC stored at the new stack pointer
PushPC(v) == StoreBytes(v, SP(v), WBytes(PC(v)))

DecSP(v) == [v EXCEPT !.reg[COMMA] = WSub(SP(v), W(4))]

\* case ';': a = fetch(vm); glyph_sp(vm) -= 4; M(sp+0..3) = PC; PC = R(a);
CallCase(o) == JumpCase(Done(PushPC(DecSP(o.vm)), o))

\* case ',': PC = the word at the stack pointer; glyph_sp(vm) += 4;
Return(v) ==
    [v EXCEPT !.reg[DOT] = LoadBytes(v, SP(v)), !.reg[COMMA] = WAdd(SP(v), W(4))]

\* the opcodes that have a case of their own in glyph_run's switch
RunOpcodes ==
    ArithOps \cup BitwiseOps \cup
    {TILDE, COLON, Ord("@"), Ord("!"), Ord("("), Ord(")"), DOT, QUERY, SEMI, COMMA, 0}

\* glyph_init: memset(vm, 0, sizeof(Glyph)); vm->mem = mem; vm->size = size
glyph_init(mem, size) ==
    [mem  |-> mem,
     size |-> size,
     reg  |-> [i \in 0..127 |-> WZero],
     port |-> [i \in 0..255 |-> WZero],
     halt |-> 0]

\* while (!vm->halt)
\* while (1): the loop without its test of the halt flag
RunningHalted == engine = "run"

Running == engine = "run" /\ vm.halt = 0

\* the iteration that fetched the opcode f ends in the state r.vm
Commit(f, r) ==
    /\ last' = Trace(f, r)
    /\ calls' = calls \o r.calls
    /\ IF engine = "run" THEN vm' = r.vm /\ UNCHANGED <<engine, ev, returned>>
       ELSE ev' = r.vm /\ UNCHANGED <<engine, vm, returned>>

\* if (vm->halt) break; switch (op): the iteration that fetched the opcode f
\* takes the case of the opcodes ops, which ends in one of the results rs
Step(f, ops, rs) == f.vm.halt = 0 /\ f.b \in ops /\ \E r \in rs : Commit(f, r)

\* op = fetch(vm); if (vm->halt) break;   with the PC at or beyond size
RunFetchEnd ==
    /\ Running
    /\ fetch(vm).vm.halt = 1
    /\ vm' = fetch(vm).vm
    /\ last' = NoTrace
    /\ UNCHANGED <<engine, ev, calls, returned>>

\* case '+': case '-': case '*': case '/': case '%':
RunArith ==
    Running /\ Step(fetch(vm), ArithOps, {ArithCase(fetch(vm).b, Fetches(fetch(vm).vm, 3))})

\* case '&': case '|': case '^': case '<': case '>':
RunBitwise ==
    Running /\ Step(fetch(vm), BitwiseOps, BitwiseCase(fetch(vm).b, Fetches(fetch(vm).vm, 3)))

\* case '~':
RunNot == Running /\ Step(fetch(vm), {TILDE}, {NotCase(Fetches(fetch(vm).vm, 2))})

\* case ':':
RunLoad == Running /\ Step(fetch(vm), {COLON}, {LoadCase(Fetches(fetch(vm).vm, 2))})

\* case '@':     case '!':
RunMemory ==
    /\ Running
    /\ \/ Step(fetch(vm), {Ord("@")}, {ReadCase(Fetches(fetch(vm).vm, 2))})
       \/ Step(fetch(vm), {Ord("!")}, {WriteCase(Fetches(fetch(vm).vm, 2))})

\* case '(':     case ')':
RunPorts ==
    /\ Running
    /\ \/ Step(fetch(vm), {Ord("(")}, {PortInCase(Fetches(fetch(vm).vm, 2))})
       \/ Step(fetch(vm), {Ord(")")}, {PortOutCase(Fetches(fetch(vm).vm, 2))})

\* case '.':
RunJump == Running /\ Step(fetch(vm), {DOT}, {JumpCase(Fetches(fetch(vm).vm, 1))})

\* case '?':
RunCond == Running /\ Step(fetch(vm), {QUERY}, {CondCase(Fetches(fetch(vm).vm, 3))})

\* case ';':
RunCall == Running /\ Step(fetch(vm), {SEMI}, {CallCase(Fetches(fetch(vm).vm, 1))})

\* case ',':
RunReturn ==
    Running /\ Step(fetch(vm), {COMMA}, {Done(Return(fetch(vm).vm), Fetches(fetch(vm).vm, 0))})

\* case 0 with the assignment to halt lost: the loop goes on
HaltContinue(v) == v

\* case 0: vm->halt = 1;
Halt(v) == [v EXCEPT !.halt = 1]

RunHalt ==
    Running /\ Step(fetch(vm), {0}, {Done(Halt(fetch(vm).vm), Fetches(fetch(vm).vm, 0))})

\* default: break;
RunDefault ==
    Running /\ Step(fetch(vm), Byte \ RunOpcodes, {Done(fetch(vm).vm, Fetches(fetch(vm).vm, 0))})

\* switch (op): the outcomes of one iteration of the loop whose opcode
\* fetch is f
Switch(f) ==
    IF f.b \in ArithOps THEN {ArithCase(f.b, Fetches(f.vm, 3))}
    ELSE IF f.b \in BitwiseOps THEN BitwiseCase(f.b, Fetches(f.vm, 3))
    ELSE IF f.b = TILDE THEN {NotCase(Fetches(f.vm, 2))}
    ELSE IF f.b = COLON THEN {LoadCase(Fetches(f.vm, 2))}
    ELSE IF f.b = Ord("@") THEN {ReadCase(Fetches(f.vm, 2))}
    ELSE IF f.b = Ord("!") THEN {WriteCase(Fetches(f.vm, 2))}
    ELSE IF f.b = Ord("(") THEN {PortInCase(Fetches(f.vm, 2))}
    ELSE IF f.b = Ord(")") THEN {PortOutCase(Fetches(f.vm, 2))}
    ELSE IF f.b = DOT THEN {JumpCase(Fetches(f.vm, 1))}
    ELSE IF f.b = QUERY THEN {CondCase(Fetches(f.vm, 3))}
    ELSE IF f.b = SEMI THEN {CallCase(Fetches(f.vm, 1))}
    ELSE IF f.b = COMMA THEN {Done(Return(f.vm), Fetches(f.vm, 0))}
    ELSE IF f.b = 0 THEN {Done(Halt(f.vm), Fetches(f.vm, 0))}
    ELSE {Done(f.vm, Fetches(f.vm, 0))}

\* glyph_run(vm) as a function: the Glyph it returns with, or the one it has
\* reached after n iterations (of an undefined shift, one outcome)
RECURSIVE glyph_run(_, _)
glyph_run(v, n) ==
    IF v.halt = 1 \/ n = 0 THEN v
    ELSE IF fetch(v).vm.halt = 1 THEN fetch(v).vm
    ELSE glyph_run((CHOOSE r \in Switch(fetch(v)) : TRUE).vm, n - 1)

\* while (!vm->halt) finds the flag set, or if (vm->halt) break: glyph_run
\* returns
RunExitLoop ==
    /\ engine = "run" /\ vm.halt = 1 /\ ~returned
    /\ returned' = TRUE
    /\ UNCHANGED <<engine, vm, ev, last, calls>>

NextRun ==
    \/ RunExitLoop
    \/ RunFetchEnd
    \/ RunArith
    \/ RunBitwise
    \/ RunNot
    \/ RunLoad
    \/ RunMemory
    \/ RunPorts
    \/ RunJump
    \/ RunCond
    \/ RunCall
    \/ RunReturn
    \/ RunHalt
    \/ RunDefault

(***************************************************************************)
(* The accumulator engine (src/unnamed/part_001).  Its state v is the      *)
(* Glyph struct: m, r, s, p (256 bytes each), the stack index T, the       *)
(* callbacks e and h (TRUE when registered) and halt.  All values are u8.  *)
(***************************************************************************)
SIZE == 256

BACKQUOTE == 96

ACCR == Ord("=")

QUOTE == Ord("'")

\* a read of ',' that returns the oldest value of the stack
glyph_getrOldest(v, reg) == IF reg = COMMA THEN v.s[0] ELSE v.r[reg]

\* glyph_getr: the value read, and the state the read leaves (reading ','
\* pops the stack)
glyph_getr(v, reg) == IF reg = COMMA THEN v.s[(v.T - 1) % SIZE] ELSE v.r[reg]

\* a pop that leaves an empty stack empty
PoppedGuarded(v, reg) == IF reg = COMMA /\ v.T > 0 THEN [v EXCEPT !.T = v.T - 1] ELSE v

Popped(v, reg) == IF reg = COMMA THEN [v EXCEPT !.T = (v.T - 1) % SIZE] ELSE v

\* glyph_setr (writing ',' pushes); val is converted to u8
glyph_setr(v, reg, val) ==
    IF reg = COMMA
    THEN [v EXCEPT !.s[v.T] = val % SIZE, !.T = (v.T + 1) % SIZE]
    ELSE [v EXCEPT !.r[reg] = val % SIZE]

\* glyph_next: u8 pc = glyph_getr(vm, '.'); u8 res = vm->m[pc++];
\*             glyph_setr(vm, '.', pc); return res;
glyph_next(v) ==
    [vm |-> glyph_setr(v, DOT, glyph_getr(v, DOT) + 1),
     b  |-> v.m[glyph_getr(v, DOT)],
     at |-> glyph_getr(v, DOT)]

\* #define A R('=')
Acc(v) == v.r[ACCR]

\* #define ACC(x) glyph_setr(vm, '=', (x))
ACC(v, x) == glyph_setr(v, ACCR, x)

\* #define FLG(x) glyph_setr(vm, '?', (x))
FLG(v, x) == glyph_setr(v, QUERY, IF x THEN 1 ELSE 0)

\* no operand fetched yet: the state, the operand bytes (args), where they
\* were read (at) and the register values read through them (vals)
Operands(v) == [vm |-> v, args |-> <<>>, at |-> <<>>, vals |-> <<>>]

\* the operands p and one more byte n taken as it is (a=N)
GatherN(p, n) ==
    [vm |-> n.vm, args |-> Append(p.args, n.b), at |-> Append(p.at, n.at),
     vals |-> p.vals]

\* the operands p, one more byte n and the read of the register it names
\* (a=R(N))
GatherR(p, n) ==
    [vm |-> Popped(n.vm, n.b), args |-> Append(p.args, n.b), at |-> Append(p.at, n.at),
     vals |-> Append(p.vals, glyph_getr(n.vm, n.b))]

\* N
OperandN(p) == GatherN(p, glyph_next(p.vm))

\* R(N)
OperandR(p) == GatherR(p, glyph_next(p.vm))

EvalSpaces == {32, 12, 10, 11, 13, 9}

EvalDigits == {Ord("0") + d : d \in 0..9}

EvalBinaryOps ==
    {Ord("+"), Ord("-"), Ord("*"), Ord("/"), Ord("%"), Ord("&"), Ord("|"), Ord("^")}

EvalShiftOps == {Ord("<"), Ord(">")}

\* ACC(0);
EvalSpaceCase(o) == Done(ACC(o.vm, 0), o)

\* ACC(op - '0'): a digit that replaces the accumulator
EvalDigitCaseAlone(op, o) == Done(ACC(o.vm, op - Ord("0")), o)

\* ACC((A * 10) + (op - '0'));
EvalDigitCase(op, o) == Done(ACC(o.vm, (Acc(o.vm) * 10) + (op - Ord("0"))), o)

\* WR(N, A); ACC(0);   after N
EvalStoreCase(o) == Done(ACC(glyph_setr(o.vm, o.args[1], Acc(o.vm)), 0), o)

\* ACC(N);   after N
EvalQuoteCase(o) == Done(ACC(o.vm, o.args[1]), o)

\* a OP b  on a machine whose sums stop at 255
EvalBinarySaturating(op, a, b) ==
    CASE op = Ord("+") -> IF a + b > 255 THEN 255 ELSE a + b
      [] op = Ord("-") -> (a - b) % SIZE
      [] op = Ord("*") -> (a * b) % SIZE
      [] op = Ord("/") -> IF b # 0 THEN a \div b ELSE 0
      [] op = Ord("%") -> IF b # 0 THEN a % b ELSE 0
      [] op = Ord("&") -> BitAnd(a, b)
      [] op = Ord("|") -> BitOr(a, b)
      [] op = Ord("^") -> BitXor(a, b)

\* the u8 result of  a OP b  for the arithmetic and bitwise opcodes
EvalBinary(op, a, b) ==
    CASE op = Ord("+") -> (a + b) % SIZE
      [] op = Ord("-") -> (a - b) % SIZE
      [] op = Ord("*") -> (a * b) % SIZE
      [] op = Ord("/") -> IF b # 0 THEN a \div b ELSE 0
      [] op = Ord("%") -> IF b # 0 THEN a % b ELSE 0
      [] op = Ord("&") -> BitAnd(a, b)
      [] op = Ord("|") -> BitOr(a, b)
      [] op = Ord("^") -> BitXor(a, b)

\* a=R(N);b=R(N); ACC(a OP b);   after the two reads
EvalBinaryCase(op, o) == Done(ACC(o.vm, EvalBinary(op, o.vals[1], o.vals[2])), o)

\* (u8)(a << n) and (u8)(a >> n) for a promoted to int and a count n < 32
Shl8(a, n) == IF n >= 8 THEN 0 ELSE (a * Pow2(n)) % SIZE

Shr8(a, n) == IF n >= 8 THEN 0 ELSE a \div Pow2(n)

\* the u8 results of  a << n  and  a >> n : a count of 32 or more is
\* undefined in C, the build masks it to five bits or produces 0
EvalShift(op, a, n) ==
    IF op = Ord("<")
    THEN (IF n < 32 THEN {Shl8(a, n)} ELSE {Shl8(a, n % 32), 0})
    ELSE (IF n < 32 THEN {Shr8(a, n)} ELSE {Shr8(a, n % 32), 0})

\* a=R(N); ACC(a << A);  a=R(N); ACC(a >> A);   after the read
EvalShiftCase(op, o) ==
    {Done(ACC(o.vm, w), o) : w \in EvalShift(op, o.vals[1], Acc(o.vm))}

\* a=R(N); ACC(~a);   after the read
EvalNotCase(o) == Done(ACC(o.vm, SIZE - 1 - o.vals[1]), o)

\* case '@' after a=N;b=N;    WR(b, M(A));    M(A) = R(b);
EvalMemCase(o) ==
    IF o.args[1] = Ord("<") THEN Done(glyph_setr(o.vm, o.args[2], o.vm.m[Acc(o.vm)]), o)
    ELSE IF o.args[1] = Ord(">")
    THEN Done([Popped(o.vm, o.args[2]) EXCEPT
                   !.m[Acc(o.vm)] = glyph_getr(o.vm, o.args[2])], o)
    ELSE Done(o.vm, o)

\* the device ports of the console emulator (src/test.c)
CON_CONSOLE == 99

SYS_EXIT == 88

\* the host's input callback (emu_hear in src/test.c): it refreshes the
\* console port from stdin, 0 at the end of the input; bytes of InputBytes
\* arrive
InputBytes == {0, Ord("A")}

hear(v, prt) ==
    IF prt = CON_CONSOLE THEN {[v EXCEPT !.p[prt] = c] : c \in InputBytes} ELSE {v}

\* if (vm->h) vm->h(A);
Heard(v) == IF v.h THEN hear(v, Acc(v)) ELSE {v}

\* the result r of a port instruction together with the call it made, in
\* the state v, of the callback fn if it is registered: the callback, its
\* argument A and the byte the port holds when the callback returns (the
\* byte emu_emit prints or exits with, the byte emu_hear left)
Resonance(r, v, fn, registered) ==
    [r EXCEPT !.calls = IF registered THEN <<<<fn, Acc(v), v.p[Acc(v)]>>>> ELSE <<>>]

\* P(A) = R(b);     after a=N;b=N;
EvalPortStore(o) ==
    [Popped(o.vm, o.args[2]) EXCEPT !.p[Acc(o.vm)] = glyph_getr(o.vm, o.args[2])]

\* case '#' with the output callback called before the port is stored
EvalPortCaseEmitFirst(o) ==
    IF o.args[1] = Ord("<")
    THEN {Resonance(Done(glyph_setr(h, o.args[2], h.p[Acc(h)]), o), h, "h", h.h) :
              h \in Heard(o.vm)}
    ELSE IF o.args[1] = Ord(">")
    THEN {Resonance(Done(EvalPortStore(o), o), o.vm, "e", o.vm.e)}
    ELSE {Done(o.vm, o)}

\* case '#' with the port read before the input callback is called
EvalPortCaseReadFirst(o) ==
    IF o.args[1] = Ord("<")
    THEN {Resonance(Done(glyph_setr(h, o.args[2], o.vm.p[Acc(o.vm)]), o), h, "h", h.h) :
              h \in Heard(o.vm)}
    ELSE IF o.args[1] = Ord(">")
    THEN {Resonance(Done(EvalPortStore(o), o), EvalPortStore(o), "e", o.vm.e)}
    ELSE {Done(o.vm, o)}

\* case '#' after a=N;b=N;  the results it can have
\*   if (vm->h) vm->h(A); WR(b, P(A));      P(A) = R(b); if (vm->e) vm->e(A);
EvalPortCase(o) ==
    IF o.args[1] = Ord("<")
    THEN {Resonance(Done(glyph_setr(h, o.args[2], h.p[Acc(h)]), o), h, "h", h.h) :
              h \in Heard(o.vm)}
    ELSE IF o.args[1] = Ord(">")
    THEN {Resonance(Done(EvalPortStore(o), o), EvalPortStore(o), "e", o.vm.e)}
    ELSE {Done(o.vm, o)}

\* emu_emit's  case SYS_EXIT: exit(vm.p[SYS_EXIT] & 0xFF);  has ended the
\* process
Exited == \E i \in 1..Len(calls) : calls[i][1] = "e" /\ calls[i][2] = SYS_EXIT

\* A == R(b), A != R(b), A < R(b), A > R(b)
Compare(sel, a, x) ==
    CASE sel = Ord("=") -> a = x
      [] sel = Ord("!") -> a # x
      [] sel = Ord("<") -> a < x
      [] sel = Ord(">") -> a > x

\* case '?' after a=N;b=N;  FLG(A == R(b)); ...
EvalCmpCase(o) ==
    IF o.args[1] \in {Ord("="), Ord("!"), Ord("<"), Ord(">")}
    THEN Done(FLG(Popped(o.vm, o.args[2]),
                  Compare(o.args[1], Acc(o.vm), glyph_getr(o.vm, o.args[2]))), o)
    ELSE Done(o.vm, o)

\* case ':': if (R('?')) WR(N, A); ACC(0);
EvalCondMoveCase(o) ==
    IF glyph_getr(o.vm, QUERY) # 0 THEN EvalStoreCase(OperandN(o))
    ELSE Done(ACC(o.vm, 0), o)

\* a call that keeps its return address off the data stack
PushDotApart(v) == [v EXCEPT !.T = (v.T + 1) % SIZE]

\* vm->s[vm->T++] = R('.');
PushDot(v) == [v EXCEPT !.s[v.T] = v.r[DOT], !.T = (v.T + 1) % SIZE]

\* WR('.', R(N));   after the read
EvalJump(o) == Done(glyph_setr(o.vm, DOT, o.vals[1]), o)

\* case ';': vm->s[vm->T++] = R('.'); WR('.', R(N));
EvalCallCase(v) == EvalJump(OperandR(Operands(PushDot(v))))

\* a copy of the PC that reads it before the operand fetch has moved it
EvalCopyCaseStale(op, o) ==
    Done(glyph_setr(Popped(o.vm, op), o.args[1],
                    IF op = DOT THEN o.at[1] ELSE glyph_getr(o.vm, op)), o)

\* default: a=N; WR(a, R(op));   after a=N
EvalCopyCase(op, o) == Done(glyph_setr(Popped(o.vm, op), o.args[1], glyph_getr(o.vm, op)), o)

\* the opcodes that have a case of their own in glyph_eval's switch
EvalOpcodes ==
    EvalSpaces \cup EvalDigits \cup EvalBinaryOps \cup EvalShiftOps \cup
    {ACCR, QUOTE, TILDE, Ord("@"), Ord("#"), QUERY, COLON, SEMI, BACKQUOTE, 0}

\* the Glyph struct after bzero(&vm, sizeof(vm)) and the copy of the program
EvalZero(m) ==
    [m |-> m,
     r |-> [i \in 0..SIZE - 1 |-> 0],
     s |-> [i \in 0..SIZE - 1 |-> 0],
     p |-> [i \in 0..SIZE - 1 |-> 0],
     T |-> 0, e |-> FALSE, h |-> FALSE, halt |-> 0]

\* while (!vm->halt), in a process that has not exited
Evaluating == engine = "eval" /\ ev.halt = 0 /\ ~Exited

\* case' ':case'\f':case'\n':case'\v':case'\r':case'\t':
EvalSpace ==
    Evaluating /\ Step(glyph_next(ev), EvalSpaces, {EvalSpaceCase(Operands(glyph_next(ev).vm))})

\* case'0' ... case'9':
EvalDigit ==
    /\ Evaluating
    /\ Step(glyph_next(ev), EvalDigits,
            {EvalDigitCase(glyph_next(ev).b, Operands(glyph_next(ev).vm))})

\* case '=':
EvalStore ==
    /\ Evaluating
    /\ Step(glyph_next(ev), {ACCR}, {EvalStoreCase(OperandN(Operands(glyph_next(ev).vm)))})

\* case '\'':
EvalQuote ==
    /\ Evaluating
    /\ Step(glyph_next(ev), {QUOTE}, {EvalQuoteCase(OperandN(Operands(glyph_next(ev).vm)))})

\* case '+': case '-': case '*': case '/': case '%': case '&': case '|': case '^':
EvalArith ==
    /\ Evaluating
    /\ Step(glyph_next(ev), EvalBinaryOps,
            {EvalBinaryCase(glyph_next(ev).b, OperandR(OperandR(Operands(glyph_next(ev).vm))))})

\* case '<':     case '>':
EvalShiftOp ==
    /\ Evaluating
    /\ Step(glyph_next(ev), EvalShiftOps,
            EvalShiftCase(glyph_next(ev).b, OperandR(Operands(glyph_next(ev).vm))))

\* case '~':
EvalNot ==
    /\ Evaluating
    /\ Step(glyph_next(ev), {TILDE}, {EvalNotCase(OperandR(Operands(glyph_next(ev).vm)))})

\* case '@':
EvalMemory ==
    /\ Evaluating
    /\ Step(glyph_next(ev), {Ord("@")},
            {EvalMemCase(OperandN(OperandN(Operands(glyph_next(ev).vm))))})

\* case '#':
EvalPorts ==
    /\ Evaluating
    /\ Step(glyph_next(ev), {Ord("#")},
            EvalPortCase(OperandN(OperandN(Operands(glyph_next(ev).vm)))))

\* case '?':
EvalCompare ==
    /\ Evaluating
    /\ Step(glyph_next(ev), {QUERY},
            {EvalCmpCase(OperandN(OperandN(Operands(glyph_next(ev).vm))))})

\* case ':':
EvalCondMove ==
    /\ Evaluating
    /\ Step(glyph_next(ev), {COLON}, {EvalCondMoveCase(Operands(glyph_next(ev).vm))})

\* case ';':
EvalCall == Evaluating /\ Step(glyph_next(ev), {SEMI}, {EvalCallCase(glyph_next(ev).vm)})

\* case '`': case 0: vm->halt = 1;
EvalHalt ==
    /\ Evaluating
    /\ Step(glyph_next(ev), {BACKQUOTE, 0},
            {Done(Halt(glyph_next(ev).vm), Operands(glyph_next(ev).vm))})

\* default:
EvalCopy ==
    /\ Evaluating
    /\ Step(glyph_next(ev), Byte \ EvalOpcodes,
            {EvalCopyCase(glyph_next(ev).b, OperandN(Operands(glyph_next(ev).vm)))})

\* while (!vm->halt) finds the flag set, or if (vm->halt) break: glyph_eval
\* returns
EvalExitLoop ==
    /\ engine = "eval" /\ ev.halt = 1 /\ ~returned
    /\ returned' = TRUE
    /\ UNCHANGED <<engine, vm, ev, last, calls>>

NextEval ==
    \/ EvalExitLoop
    \/ EvalSpace
    \/ EvalDigit
    \/ EvalStore
    \/ EvalQuote
    \/ EvalArith
    \/ EvalShiftOp
    \/ EvalNot
    \/ EvalMemory
    \/ EvalPorts
    \/ EvalCompare
    \/ EvalCondMove
    \/ EvalCall
    \/ EvalHalt
    \/ EvalCopy

(***************************************************************************)
(* The disassembler (src/tools/glyph-dis.c).  Its state is the input data  *)
(* (data_len bytes, here a function on 0..data_len-1) and the position     *)
(* pos; what it prints is left out.                                        *)
(***************************************************************************)

\* static int next(void): the byte returned (-1 at the end) and the new pos
next(data, data_len, pos) ==
    IF pos < data_len THEN [c |-> data[pos], pos |-> pos + 1]
    ELSE [c |-> -1, pos |-> pos]

\* static void disasm_one(void): the position it leaves, from the calls of
\* next() the case of the opcode makes
disasm_one(data, data_len, pos) ==
    LET op == next(data, data_len, pos)
        a  == next(data, data_len, op.pos)
        b  == next(data, data_len, a.pos)
        c  == next(data, data_len, b.pos)
        d  == next(data, data_len, c.pos)
    IN  IF op.c < 0 THEN pos
        ELSE IF op.c \in ArithOps \cup BitwiseOps THEN c.pos
        ELSE IF op.c = TILDE THEN b.pos
        ELSE IF op.c = COLON
             THEN IF b.c \in {Ord("g"), Ord("x"), DOT} THEN c.pos ELSE b.pos
        ELSE IF op.c \in {Ord("@"), Ord("!")} THEN b.pos
        ELSE IF op.c = Ord("#") THEN c.pos
        ELSE IF op.c \in {DOT, SEMI} THEN a.pos
        ELSE IF op.c = QUERY THEN d.pos
        ELSE op.pos

(***************************************************************************)
(* Programs.  A run starts from the state the test harnesses build:        *)
(* glyph_init (resp. bzero) and the program copied to address 0, the rest  *)
(* of memory zero.                                                         *)
(***************************************************************************)
\* the hexadecimal digit and the decimal digit of a value below 10
Digit(n) == <<Ord("0") + n>>

\* the decimal literal of n, as the programs of the tests write it
RECURSIVE Decimal(_)
Decimal(n) == IF n < 10 THEN Digit(n) ELSE Decimal(n \div 10) \o Digit(n % 10)

\* n bytes b
Fill(n, b) == [i \in 1..n |-> b]

\* the programs of the three-operand engine's tests (src/test.c), of README
\* and of JUMPS.md, and instructions the tests leave out
RunTests ==
    {Bytes(":ax5 :bx3 +cab -dab *eab /fab"),
     Bytes(":axF :bx7 &cab |dab ^eab ~fa"),
     Bytes(":ax4 :bx2 <cab >dab"),
     Bytes(":ag2 :bg* !ab @ca"),
     Bytes(":ax5 :bgc #>ab"),
     Bytes(":axa #<ba"),
     Bytes(":ax5 :bgc )ab (da"),
     Bytes(":jxf .j :ax1"),
     Bytes(":ax5 :bx5 ?=ab:cx1 :dx2"),
     Bytes(":ax5 :bx3 ?=ab:cx1"),
     Bytes(":ag* :b.a"),
     Bytes(":ad5 :bd3 +cab"),
     Bytes(":bx5+ab") \o <<0>> \o Bytes(":cx1"),
     Bytes(":bx5/ab%ab~cb:dx2<edb>ebd"),
     Bytes(":ab:ax1"),
     Bytes(":ax1:bx1:tg") \o <<20>> \o Bytes("?=abt:cx1"),
     Bytes(":axFF:bx1f:cx0A"),
     Bytes(":agz ~ba !ab @ca"),
     Bytes(":ag2 :bg* !ab :dgc )ad @ca (ea"),
     Bytes(":ax5+aaa"),
     Bytes(":ax1;,:bx1"),
     Bytes(":") \o <<225>> \o Bytes("x5+b") \o <<225>> \o Bytes("a"),
     Bytes(":ax5 :bx3 + c a b"),
     Bytes(":ax5:bx3+") \o <<9>> \o Bytes("c") \o <<10>> \o Bytes("a") \o <<11, 12>>
         \o Bytes("b-") \o <<13>> \o Bytes("dab&e") \o <<32, 10>> \o Bytes("ab")}

\* :axV :bxW and c = ~a, then divisions, or additions, subtractions and
\* multiplications, of small and of large words
RunPairs ==
    {Bytes(":ax") \o Digit(v) \o Bytes(":bx") \o Digit(w) \o Bytes("~ca") \o body :
        v \in 0..MaxVal, w \in 0..MaxVal,
        body \in {Bytes("/dab%eab/fcb%gcb/hac%iac/jcc"),
                  Bytes("+dab+eba+fcb+gbc+hcc-iab-jba*kab*lcb*mcc+aaa")}}
    \cup {Bytes(":ax") \o <<X>> \o Bytes(" :bx") \o <<Y>> \o Bytes(" +cab") :
            X \in {Ord("0") + d : d \in 0..9} \cup {Ord("a") + d : d \in 0..5}
                     \cup {Ord("A") + d : d \in 0..5},
            Y \in {Ord("0") + d : d \in 0..9} \cup {Ord("a") + d : d \in 0..5}
                     \cup {Ord("A") + d : d \in 0..5}}

\* :agX followed by another load, for every byte X
RunLiterals == {Bytes(":ag") \o <<x>> \o Bytes(":bx1") : x \in Byte}

\* every byte in opcode position, followed by register names and a load
RunEveryOpcode == {Bytes(":bx5") \o <<op>> \o Bytes("abc:dx1") : op \in Byte}

\* :axV :bxW ?Sab I J  for the four comparisons S and several instructions I
RunConds ==
    {Bytes(":ax") \o Digit(v) \o Bytes(":bx") \o Digit(w) \o Bytes("?") \o <<sel>>
        \o Bytes("ab") \o body \o Bytes(":dx2") :
        v \in 0..MaxVal, w \in 0..MaxVal, sel \in {Ord("="), Ord("!"), Ord("<"), Ord(">")},
        body \in {Bytes(":cx1"), Bytes("+cab"), Bytes(":c.a"), Bytes(" :cx1"), Bytes(",:cx1")}}

\* a subroutine at 16 that calls a subroutine at 24, called from the main
\* program, and a subroutine at 20 that calls itself d times
RunCalls ==
    {Bytes(":fg") \o <<16>> \o Bytes(":hg") \o <<24>> \o Bytes(";f:ax1") \o <<0, 0>>
        \o Bytes(";h:bx2,") \o <<0>> \o Bytes(":cx3,")}
    \cup
    {Bytes(":nx") \o Digit(d) \o Bytes(":1x1:fg") \o <<20>> \o Bytes(";f:ax1") \o <<0, 0>>
        \o Bytes("?=nz,-nn1;f,") : d \in 0..MaxVal + 1}

\* the relative jumps of JUMPS.md,  :t..:oxN+tto.t  and  :t..:oxN-tto.t,
\* at the addresses 0, 5 and 20, with loads after them to land in
RunJumps ==
    {Fill(P, Ord("z")) \o Bytes(":t..:ox") \o <<N, op>> \o Bytes("tto.t:ax1:bx2:cx3:dx4") :
        P \in {0, 5, 20}, op \in {Ord("+"), Ord("-")},
        N \in {Ord("0") + d : d \in 0..9} \cup {Ord("a") + d : d \in 0..5}
                 \cup {Ord("A") + d : d \in 0..5}}

\* memories without a zero byte: the program runs off the end of the buffer
RunFull ==
    {Bytes(":ax1") \o Fill(Pow2(MemBits) - 4, b) : b \in {32, Ord("z")}}
    \cup {Fill(Pow2(MemBits) - 7, Ord("z")) \o Bytes(":bx5+ab")}
    \cup {Fill(Pow2(MemBits) - 3, Ord("z")) \o Bytes(":ag")}

RunPrograms ==
    RunTests \cup RunLiterals \cup RunEveryOpcode \cup RunConds \cup RunCalls \cup RunFull
        \cup RunPairs \cup RunJumps

\* the buffer after memcpy(mem, prog, strlen(prog) + 1) into zeroed memory
Image(prog, size) == [i \in 0..size - 1 |-> IF i < Len(prog) THEN prog[i + 1] ELSE 0]

\* programs run in a buffer that an earlier test has used: the jump test,
\* a jump and a memory read beyond the text, and an addition
RunAgain == {Bytes(":jxf .j :ax1"), Bytes(":ax7 :jxf .j"), Bytes(":axf @ba"), Bytes(":ax5+aaa")}

\* memcpy(mem, prog, strlen(prog) + 1) into the buffer an earlier run left
memcpy(mem, prog) ==
    [i \in DOMAIN mem |->
        IF i < Len(prog) THEN prog[i + 1] ELSE IF i = Len(prog) THEN 0 ELSE mem[i]]

\* the programs of the accumulator engine's tests (src/unnamed/part_000),
\* and programs that use the emulator's console and exit ports, the stack
\* and a call through it
EvalTests ==
    {Bytes("5=a 3=b +ab=c -ab=d *ab=e /ab=f"),
     Bytes("15=a 7=b &ab=c |ab=d ^ab=e ~a=f"),
     Bytes("4=a 2<a=c 2>a=d"),
     Bytes("'*=b '2@>b@<c"),
     Bytes("'c=b 5#>b"),
     Bytes("10#<b"),
     Bytes("34=, 35=, +,,=a"),
     Bytes("13=a a. 34=b 35=a +ab=c"),
     Bytes("1=c +bc=b 2?=b 23:. z. 10=z +zb=b"),
     Bytes("5=a 5?=a 1=r 9:r"),
     Bytes("5=a 3?=b 1=r 9:r"),
     Bytes("5=a 3?!a 1=r 9:r"),
     Bytes("5=a 5?!a 1=r 9:r"),
     Bytes("3=a 5?>a 1=r 9:r"),
     Bytes("5=a 3?>a 1=r 9:r"),
     Bytes("5=a 3?<a 1=r 9:r"),
     Bytes("3=a 5?<a 1=r 9:r"),
     Bytes("12=. 5=r ,. 1=r 5=f ;f 1=i +ri=s"),
     Bytes("32=. 3=r ,. 5=f ;f 1=i +ri=r ,. 0=r 12=g ;g"),
     Bytes("'*=a ab"),
     Bytes(".a.b.c.d"),
     Bytes("5=") \o <<0>> \o Bytes("1=b"),
     Bytes("9=f;f1=a") \o <<0>> \o Bytes("2=b,."),
     Bytes("7=a/ab%ab") \o <<BACKQUOTE>>,
     Bytes("1=?0:?:x"),
     Bytes("'A=b 'c#>b 'e#>b"),
     Bytes("'c#<b 'c#<d"),
     Bytes("3=b 'X#>b 1=d"),
     Bytes("'*=b '2@>b 'c=d 2#>d '2@<c 2#<e"),
     Bytes("5=a +aa=a"),
     Bytes("7=, ;, 2=b"),
     Bytes("5=") \o <<225>> \o Bytes(" +a") \o <<225>> \o Bytes("=c"),
     Bytes("5=a 3=b +ab7=c ~a1=d 'x2=e"),
     Bytes("300=a 2565=b 007=c"),
     Bytes("1=a ,. 2=b"),
     Bytes("1=, 2=, 3=, ,a ,b ,c"),
     Bytes("12=, ,. 1=a 2=b"),
     Bytes("12=f ;f 1=a") \o <<0>> \o Bytes(",x") \o <<0>>,
     Bytes("12=f ;f 1=a") \o <<0>> \o Bytes("7=b ,. 1=c")}

\* V=a W=b and c = ~a, then divisions, or additions, subtractions and
\* multiplications, of small and of large bytes
EvalPairs ==
    {Digit(v) \o Bytes("=a") \o Digit(w) \o Bytes("=b~a=c") \o body :
        v \in 0..MaxVal, w \in 0..MaxVal,
        body \in {Bytes("/ab=d%ab=e/cb=f%cb=g/ac=h%ac=i/cc=j"),
                  Bytes("+ab=d+ba=e+cb=f+bc=g+cc=h-ab=i-ba=j*ab=k*cb=l*cc=m")}}
    \cup {Decimal(x) \o Bytes("=, ") \o Decimal(y) \o Bytes("=, +,,=a") :
            x \in 0..MaxVal \cup {34, 200}, y \in 0..MaxVal \cup {35, 100}}
    \cup {Decimal(x) \o Bytes("=a ") \o Decimal(y) \o Bytes("=b +ab=c") :
            x \in 0..MaxVal \cup {3, 5, 99, 100, 200, 255},
            y \in 0..MaxVal \cup {3, 5, 99, 100, 200, 255}}

\* 'X followed by a store, for every byte X
EvalLiterals == {Bytes("'") \o <<x>> \o Bytes("=a1=b") : x \in Byte}

\* every byte in opcode position, followed by register names and a store
EvalEveryOpcode == {Bytes("5=b") \o <<op>> \o Bytes("ab1=d") : op \in Byte}

\* W=r V?Sr 1=d 9:d 7=e  for the four comparisons S
EvalConds ==
    {Digit(w) \o Bytes("=r") \o Digit(v) \o Bytes("?") \o <<sel>> \o Bytes("r1=d9:d7=e") :
        v \in 0..MaxVal, w \in 0..MaxVal, sel \in {Ord("="), Ord("!"), Ord("<"), Ord(">")}}

\* memories without a zero byte: the PC wraps from 255 to 0
EvalFull == {Fill(SIZE, 32), Bytes(".a") \o Fill(SIZE - 5, 32) \o Bytes(".b.")}

EvalPrograms ==
    EvalTests \cup EvalLiterals \cup EvalEveryOpcode \cup EvalConds \cup EvalFull
        \cup EvalPairs

RunIdle == glyph_init(Image(<<>>, Pow2(MemBits)), Pow2(MemBits))

EvalIdle == EvalZero(Image(<<>>, SIZE))

\* the tests' run(prog), and TEST(ports), which sets vm.port[10] = 77
\* between glyph_init and glyph_run; a host that sets the halt flag before
\* it calls glyph_run; run(prog) in the buffer that run(prev) has left (the
\* tests share one static buffer)
InitRun ==
    /\ engine = "run"
    /\ \/ \E prog \in RunPrograms :
             vm = glyph_init(Image(prog, Pow2(MemBits)), Pow2(MemBits))
       \/ \E prev \in RunTests,
             prog \in RunAgain :
             vm = glyph_init(memcpy(glyph_run(glyph_init(Image(prev, Pow2(MemBits)),
                                                         Pow2(MemBits)), MaxSteps).mem,
                                    prog),
                             Pow2(MemBits))
       \/ \E prog \in {Bytes(":axa #<ba"), Bytes(":axa (ba")} :
             vm = [glyph_init(Image(prog, Pow2(MemBits)), Pow2(MemBits))
                       EXCEPT !.port[10] = W(77)]
       \/ vm = [glyph_init(Image(Bytes(":ax9"), Pow2(MemBits)), Pow2(MemBits)) EXCEPT !.halt = 1]
    /\ ev = EvalIdle
    /\ last = NoTrace
    /\ calls = <<>>
    /\ returned = FALSE

\* the tests' run(prog), without callbacks, and TEST(ports), which sets
\* vm.p[10] = 77; the emulator's main, which registers emu_emit and emu_hear
InitEval ==
    /\ engine = "eval"
    /\ \/ \E prog \in EvalPrograms, emu \in BOOLEAN :
             ev = [EvalZero(Image(prog, SIZE)) EXCEPT !.e = emu, !.h = emu]
       \/ ev = [EvalZero(Image(Bytes("10#<b"), SIZE)) EXCEPT !.p[10] = 77]
       \/ ev = [EvalZero(Image(Bytes("9=a"), SIZE)) EXCEPT !.halt = 1]
    /\ vm = RunIdle
    /\ last = NoTrace
    /\ calls = <<>>
    /\ returned = FALSE

Init == InitRun \/ InitEval

Next == NextRun \/ NextEval

Spec == Init /\ [][Next]_vars


(***************************************************************************)
(* Properties.  The variable last holds the bytes the latest iteration of  *)
(* the running engine's loop fetched, so in a step last' describes the     *)
(* instruction the step executes and last the one before it.               *)
(***************************************************************************)
\* the state of each engine apart from its program counter and halt flag
RunFrame(v) == [v EXCEPT !.reg[DOT] = WZero, !.halt = 0]

EvalFrame(v) == [v EXCEPT !.r[DOT] = 0, !.halt = 0]

\* the step sets the halt flag and changes no register other than the PC,
\* no memory byte, no port (and, in glyph_eval, nothing of the stack)
HaltsKeepingState ==
    /\ engine = "run" => vm'.halt = 1 /\ RunFrame(vm') = RunFrame(vm)
    /\ engine = "eval" => ev'.halt = 1 /\ EvalFrame(ev') = EvalFrame(ev)

\* the instruction l read a zero byte from memory, as its opcode or as one
\* of its operands
ZeroFetched(l) ==
    \/ l.op = 0 /\ l.at >= 0
    \/ \E i \in 1..Len(l.args) : l.args[i] = 0 /\ l.argat[i] >= 0

\* C1 as stated: in both engines a zero byte that execution reaches, in
\* opcode position or in operand position, halts execution there, and every
\* register other than the PC, every memory byte and every port keep the
\* values they had before it was fetched.
C1_ZeroAnywhereHalts == [][ZeroFetched(last') => HaltsKeepingState]_vars

\* C1 as amended: in both engines a zero byte fetched in opcode position
\* halts execution there (the PC is left just after it), and every register
\* other than the PC, every memory byte and every port keep the values they
\* had before it was fetched.  (A zero byte fetched as an operand is an
\* operand like any other.)
C1_ZeroOpcodeHalts ==
    [][last'.op = 0 =>
         /\ HaltsKeepingState
         /\ engine = "run" => PC(vm') = W(last'.at + 1)
         /\ engine = "eval" => ev'.r[DOT] = (last'.at + 1) % SIZE]_vars

\* C1's case: glyph_run has halted on a zero opcode after its program loaded
\* registers, and they still hold what was loaded
C1_HaltedOnZero ==
    /\ engine = "run"
    /\ last.op = 0
    /\ vm.halt = 1
    /\ R(vm, Ord("a")) = W(5)
    /\ R(vm, Ord("c")) = W(8)

\* C2: in both engines a byte fetched in opcode position that is not zero,
\* not whitespace and not an opcode of the dispatch table sets the halt
\* flag, changes no register other than the PC, no memory byte and no port,
\* and no further byte is fetched.
C2_UnknownOpcodeHalts ==
    [][(\/ engine = "run" /\ last'.op \in Byte \ RunOpcodes
        \/ engine = "eval" /\ last'.op \in Byte \ EvalOpcodes)
         => HaltsKeepingState /\ last'.args = <<>>]_vars

\* the instruction l can write the program counter: a jump, a call, a
\* return, or any instruction that names the register '.' in an operand
WritesPC(l) ==
    \/ l.op \in {DOT, SEMI, COMMA}
    \/ \E i \in 1..Len(l.args) : BitAnd(l.args[i], 127) = DOT

\* C3: in both engines a fetch attempted with the program counter at or
\* beyond the memory size reads no byte and sets the halt flag; so execution
\* only ever goes back to a lower address by an instruction that writes the
\* PC, and a program without a halt byte runs off the end of the buffer
\* and halts instead of wrapping to address 0.
C3_RunsOffTheEnd ==
    [][/\ (engine = "run" /\ vm.halt = 0 /\ ~Inside(vm, SkipEnd(vm)))
            => vm'.halt = 1 /\ last'.at = -1
       /\ (last.at >= 0 /\ last'.at >= 0 /\ last'.at <= last.at) => WritesPC(last)]_vars

\* C4: in both engines a call stores as its return address the address of
\* the first byte after the call instruction (its opcode and its operand),
\* and a return (`,` in glyph_run, `,.` in glyph_eval) sets the PC to the
\* address on top of the stack; so a return that meets the stack as its
\* call left it lands on the first byte after that call, at every depth of
\* nesting.
C4_ReturnAfterCall ==
    [][/\ (engine = "run" /\ last'.op = SEMI /\ last'.argat[1] >= 0)
            => LoadBytes(vm', SP(vm')) = W(last'.argat[1] + 1)
       /\ (engine = "run" /\ last'.op = COMMA)
            => PC(vm') = LoadBytes(vm, SP(vm))
       /\ (engine = "eval" /\ last'.op = SEMI)
            => ev'.s[(ev'.T - 1) % SIZE] = (last'.argat[1] + 1) % SIZE
       /\ (engine = "eval" /\ last'.op = COMMA /\ last'.args = <<DOT>>)
            => ev'.r[DOT] = ev.s[(ev.T - 1) % SIZE]]_vars

\* every operand of the instruction l was read from memory (none of its
\* fetches ran into the end of the buffer)
Complete(l) == l.at >= 0 /\ \A i \in 1..Len(l.argat) : l.argat[i] >= 0

\* C5: in both engines the number of operand bytes an instruction consumes
\* is a function of its opcode alone: two instructions with the same opcode,
\* executed one after the other, consume the same number of operand bytes,
\* whatever the registers, the flag and the operand bytes hold.
C5_OperandCountByOpcode ==
    [][(Complete(last) /\ Complete(last') /\ last.op = last'.op)
         => Len(last.args) = Len(last'.args)]_vars

\* the first zero byte of memory, where the program text ends
ProgramEnd(v) == Least({i \in 0..v.size : i = v.size \/ v.mem[i] = 0})

\* the programs  :axV:bxW?=ab I :dx2  of RunConds: the conditional is the
\* third instruction and J, the load of d, the last one of the text
CondThenIJ(v) ==
    /\ ProgramEnd(v) >= Len(Bytes(":axV:bxW?=ab:dx2"))
    /\ [i \in 1..4 |-> v.mem[ProgramEnd(v) - 5 + i]] = Bytes(":dx2")
    /\ [i \in 1..4 |-> v.mem[Len(Bytes(":axV:bxW")) + i - 1]] = Bytes("?=ab")

\* C6: in glyph_run, for  ?=bc  followed by an instruction I and then an
\* instruction J: if R(b) = R(c) the next instruction executed is I; if
\* R(b) # R(c), I is skipped as a whole (none of its bytes is executed as an
\* opcode) and the next instruction executed is J.
C6_SkipsWholeInstruction ==
    [][(engine = "run" /\ CondThenIJ(vm) /\ last.op = QUERY /\ last.args[1] = Ord("="))
         => IF R(vm, last.args[2]) = R(vm, last.args[3])
            THEN last'.at = NonSpaceFrom(vm, last.argat[3] + 1)
            ELSE last'.at = ProgramEnd(vm) - 4]_vars

\* the instruction l is glyph_run's conditional  ?Sbc  with the selector S,
\* all of it read from memory, and another instruction follows it in memory
CondBefore(l, v, sel) ==
    /\ engine = "run"
    /\ l.op = QUERY
    /\ Complete(l)
    /\ l.args[1] = sel
    /\ NonSpaceFrom(v, l.argat[3] + 1) < v.size

\* C7: in glyph_run  ?=ab  skips the following instruction when R(a) = R(b)
\* and falls through to it when R(a) # R(b);  ?!ab  skips it when
\* R(a) # R(b) and falls through when R(a) = R(b).  (Falling through: the
\* next opcode executed is the first byte of the following instruction;
\* skipping: it is not.)
C7_SkipWhenEqual ==
    [][/\ CondBefore(last, vm, Ord("=")) =>
            ((R(vm, last.args[2]) # R(vm, last.args[3]))
                <=> (last'.at = NonSpaceFrom(vm, last.argat[3] + 1)))
       /\ CondBefore(last, vm, Ord("!")) =>
            ((R(vm, last.args[2]) = R(vm, last.args[3]))
                <=> (last'.at = NonSpaceFrom(vm, last.argat[3] + 1)))]_vars

\* C8: in glyph_run the conditional  ?=bct  consumes the three operand bytes
\* b, c and t after the selector; if R(b) = R(c) it sets PC = R(t), and
\* otherwise the PC is left just after the byte t.
C8_ConditionalJump ==
    [][(engine = "run" /\ last'.op = QUERY /\ Complete(last') /\ last'.args[1] = Ord("="))
         => /\ Len(last'.args) = 4
            /\ IF R(vm, last'.args[2]) = R(vm, last'.args[3])
               THEN PC(vm') = R(vm, last'.args[4])
               ELSE PC(vm') = W(last'.argat[4] + 1)]_vars

\* the byte after the opcode of the instruction l, in glyph_eval's memory
Operand1(v, l) == v.m[(l.at + 1) % SIZE]

Operand2(v, l) == v.m[(l.at + 2) % SIZE]

\* C9: in glyph_eval  ?=r, ?!r, ?<r, ?>r  set the flag register to 1 when
\* A = R(r), A # R(r), A < R(r), A > R(r) respectively and to 0 otherwise;
\* the conditional move  :d  consumes its operand d, writes the accumulator
\* into register d if and only if the flag is non-zero, and leaves register
\* d unchanged when the flag is zero.
C9_FlagAndConditionalMove ==
    [][engine = "eval" =>
         /\ (last'.op = QUERY /\ Operand1(ev, last') = Ord("="))
              => ev'.r[QUERY] = IF Acc(ev) = ev.r[Operand2(ev, last')] THEN 1 ELSE 0
         /\ (last'.op = QUERY /\ Operand1(ev, last') = Ord("!"))
              => ev'.r[QUERY] = IF Acc(ev) # ev.r[Operand2(ev, last')] THEN 1 ELSE 0
         /\ (last'.op = QUERY /\ Operand1(ev, last') = Ord("<"))
              => ev'.r[QUERY] = IF Acc(ev) < ev.r[Operand2(ev, last')] THEN 1 ELSE 0
         /\ (last'.op = QUERY /\ Operand1(ev, last') = Ord(">"))
              => ev'.r[QUERY] = IF Acc(ev) > ev.r[Operand2(ev, last')] THEN 1 ELSE 0
         /\ last'.op = COLON
              => /\ last'.argat = <<(last'.at + 1) % SIZE>>
                 /\ ev'.r[Operand1(ev, last')] =
                        IF ev.r[QUERY] # 0 THEN Acc(ev) ELSE ev.r[Operand1(ev, last')]]_vars

\* C10: for every byte X the literal load ( :agX  in glyph_run,  'X  in
\* glyph_eval) consumes exactly the byte X that follows (the mode byte g,
\* respectively the opcode) and loads X itself into register a,
\* respectively the accumulator.
C10_LiteralLoad ==
    [][/\ (/\ engine = "run"
           /\ last'.op = COLON
           /\ last'.args[2] = Ord("g")
           /\ last'.argat[2] >= 0
           /\ last'.argat[2] + 1 < vm.size)
            => /\ last'.argat = <<last'.argat[1], last'.argat[2], last'.argat[2] + 1>>
               /\ R(vm', last'.args[1]) = W(vm.mem[last'.argat[2] + 1])
       /\ (engine = "eval" /\ last'.op = QUOTE)
            => /\ last'.argat = <<(last'.at + 1) % SIZE>>
               /\ Acc(ev') = Operand1(ev, last')]_vars

\* the hexadecimal digits 0-9, a-f, A-F and the value of each
HexDigits ==
    {Ord("0") + d : d \in 0..9} \cup {Ord("a") + d : d \in 0..5}
        \cup {Ord("A") + d : d \in 0..5}

HexDigitValue(b) ==
    IF b <= Ord("9") THEN b - Ord("0")
    ELSE IF b >= Ord("a") THEN b - Ord("a") + 10 ELSE b - Ord("A") + 10

ReadBefore(v, reg) == IF reg = COMMA THEN v.s[v.T] ELSE v.r[reg]

\* C12 as stated: in both engines, for every address X and every register
\* word value v, the memory write that stores v at X followed by the memory
\* read of X leaves the read's destination register equal to v.
C12_ReadsBackWord ==
    [][/\ (/\ engine = "run"
           /\ last.op = Ord("!")
           /\ last'.op = Ord("@")
           /\ BitAnd(last'.args[2], 127) # DOT
           /\ R(vm, last'.args[2]) = R(vm, last.args[1]))
            => R(vm', last'.args[1]) = R(vm, last.args[2])
       /\ (/\ engine = "eval"
           /\ last.op = Ord("@")
           /\ last.args[1] = Ord(">")
           /\ last'.op = Ord("@")
           /\ last'.args[1] = Ord("<"))
            => glyph_getr(ev', last'.args[2]) = ReadBefore(ev, last.args[2])]_vars

\* C12 as amended: a memory cell is a byte.  In both engines the memory
\* write of v at X followed by the memory read of the same cell (X, or in
\* glyph_run any address equal to X modulo the size) leaves the read's
\* destination equal to v mod 256: to the low byte of the word in glyph_run,
\* to v itself in glyph_eval, whose registers are bytes.
C12_ReadsBackLowByte ==
    [][/\ (/\ engine = "run"
           /\ last.op = Ord("!")
           /\ last'.op = Ord("@")
           /\ BitAnd(last'.args[2], 127) # DOT
           /\ R(vm, last'.args[2])[2] % vm.size = R(vm, last.args[1])[2] % vm.size)
            => R(vm', last'.args[1]) = W(R(vm, last.args[2])[2] % 256)
       /\ (/\ engine = "eval"
           /\ last.op = Ord("@")
           /\ last.args[1] = Ord(">")
           /\ last'.op = Ord("@")
           /\ last'.args[1] = Ord("<"))
            => glyph_getr(ev', last'.args[2]) = ReadBefore(ev, last.args[2]) % 256]_vars

\* C12's case: glyph_run has written the word ~122 to the address 122 and
\* read it back: the cell and the destination hold its low byte 133
C12_ReadBackLowByte ==
    /\ engine = "run"
    /\ last.op = Ord("@")
    /\ R(vm, Ord("a")) = W(122)
    /\ R(vm, Ord("b")) = WNot(W(122))
    /\ vm.mem[122 % vm.size] = 133
    /\ R(vm, Ord("c")) = W(133)

\* the word glyph_run's instruction l reads from the register named x, seen
\* from the state v before l: the PC is read after l's fetches
RunOperand(v, l, x) ==
    IF BitAnd(x, 127) = DOT THEN W(l.argat[Len(l.argat)] + 1) ELSE R(v, x)

\* the cell of glyph_run's memory the word address w denotes: w mod size
Cell(v, w) == w[2] % v.size

\* the four cells of the word at the address w
WordCells(v, w) == {Cell(v, WAdd(w, W(i))) : i \in 0..3}

\* C13: no access leaves its array.  In glyph_run (the size a power of two)
\* every index used by @, !, ; and , is the address mod size, every port
\* index is taken mod 256 and every fetch reads an index below size; in
\* glyph_eval every index into m, r, s and p is in 0..255; and the arrays
\* keep their extent.
C13_AccessesWrap ==
    [][/\ engine = "run" =>
            /\ DOMAIN vm'.mem = 0..vm.size - 1
            /\ DOMAIN vm'.reg = 0..127
            /\ DOMAIN vm'.port = 0..255
            /\ vm'.size = vm.size
            /\ last'.at < vm.size
            /\ \A i \in 1..Len(last'.argat) : last'.argat[i] < vm.size
            /\ (last'.op = Ord("@") /\ Complete(last'))
                 => R(vm', last'.args[1]) =
                        W(vm.mem[Cell(vm, RunOperand(vm, last', last'.args[2]))])
            /\ (last'.op = Ord("!") /\ Complete(last'))
                 => vm'.mem =
                        [vm.mem EXCEPT ![Cell(vm, RunOperand(vm, last', last'.args[1]))] =
                            RunOperand(vm, last', last'.args[2])[2] % 256]
            /\ (last'.op = SEMI /\ Complete(last'))
                 => /\ \A i \in 0..3 :
                         vm'.mem[Cell(vm, WAdd(WSub(SP(vm), W(4)), W(i)))] =
                             WBytes(W(last'.argat[1] + 1))[i + 1]
                    /\ \A j \in 0..vm.size - 1 :
                         j \notin WordCells(vm, WSub(SP(vm), W(4))) => vm'.mem[j] = vm.mem[j]
            /\ last'.op = COMMA
                 => PC(vm') =
                        WFromBytes(vm.mem[Cell(vm, WAdd(SP(vm), W(0)))],
                                   vm.mem[Cell(vm, WAdd(SP(vm), W(1)))],
                                   vm.mem[Cell(vm, WAdd(SP(vm), W(2)))],
                                   vm.mem[Cell(vm, WAdd(SP(vm), W(3)))])
            /\ (last'.op = Ord("(") /\ Complete(last'))
                 => R(vm', last'.args[1]) =
                        vm.port[RunOperand(vm, last', last'.args[2])[2] % 256]
            /\ (last'.op = Ord(")") /\ Complete(last'))
                 => vm'.port =
                        [vm.port EXCEPT ![RunOperand(vm, last', last'.args[1])[2] % 256] =
                            RunOperand(vm, last', last'.args[2])]
       /\ engine = "eval" =>
            /\ DOMAIN ev'.m = 0..255 /\ DOMAIN ev'.r = 0..255
            /\ DOMAIN ev'.s = 0..255 /\ DOMAIN ev'.p = 0..255
            /\ ev'.T \in 0..255
            /\ \A i \in 0..255 : ev'.r[i] \in 0..255 /\ ev'.s[i] \in 0..255
            /\ last' # NoTrace => (last'.at \in 0..255 /\ last'.op \in 0..255)
            /\ \A i \in 1..Len(last'.args) :
                 last'.args[i] \in 0..255 /\ last'.argat[i] \in 0..255]_vars

\* C13's case: glyph_run has written through an address beyond the size,
\* and the byte is in the cell (address mod size)
C13_WroteWrapped ==
    /\ engine = "run"
    /\ last.op = Ord("!")
    /\ ~Inside(vm, R(vm, last.args[1]))
    /\ R(vm, last.args[2])[2] % 256 # 0
    /\ vm.mem[Cell(vm, R(vm, last.args[1]))] = R(vm, last.args[2])[2] % 256

\* Arithmetic on words as mathematics defines it, digit by digit in base
\* 256 with the least significant digit first: the five digits of x + y and
\* the eight digits of x * y
SumDigits(x, y) ==
    LET a  == WBytes(x)
        b  == WBytes(y)
        t1 == a[1] + b[1]
        t2 == a[2] + b[2] + (t1 \div 256)
        t3 == a[3] + b[3] + (t2 \div 256)
        t4 == a[4] + b[4] + (t3 \div 256)
    IN  <<t1 % 256, t2 % 256, t3 % 256, t4 % 256, t4 \div 256>>

ProductDigits(x, y) ==
    LET a  == WBytes(x)
        b  == WBytes(y)
        t1 == a[1] * b[1]
        t2 == (a[1] * b[2]) + (a[2] * b[1]) + (t1 \div 256)
        t3 == (a[1] * b[3]) + (a[2] * b[2]) + (a[3] * b[1]) + (t2 \div 256)
        t4 == (a[1] * b[4]) + (a[2] * b[3]) + (a[3] * b[2]) + (a[4] * b[1]) + (t3 \div 256)
        t5 == (a[2] * b[4]) + (a[3] * b[3]) + (a[4] * b[2]) + (t4 \div 256)
        t6 == (a[3] * b[4]) + (a[4] * b[3]) + (t5 \div 256)
        t7 == (a[4] * b[4]) + (t6 \div 256)
    IN  <<t1 % 256, t2 % 256, t3 % 256, t4 % 256,
          t5 % 256, t6 % 256, t7 % 256, t7 \div 256>>

\* the word of the four low digits: the value mod 2^32
LowWord(d) == WFromBytes(d[1], d[2], d[3], d[4])

\* x = q * d + r with 0 <= r < d, nothing wrapping
IsDivision(x, d, q, r) ==
    /\ ~WLe(d, r)
    /\ SubSeq(ProductDigits(q, d), 5, 8) = <<0, 0, 0, 0>>
    /\ SumDigits(LowWord(ProductDigits(q, d)), r) = WBytes(x) \o <<0>>

\* the operand bytes of glyph_eval's instruction l name plain registers
\* (neither the stack ',' nor the PC '.', which the fetches move)
PlainOperands(l) == \A i \in 1..Len(l.args) : l.args[i] \notin {COMMA, DOT}

C15_ArithmeticWraps ==
    [][/\ (engine = "run" /\ last'.op \in {Ord("+"), Ord("-"), Ord("*")} /\ Complete(last'))
            => /\ vm'.halt = 0
               /\ last'.op = Ord("+")
                    => /\ R(vm', last'.args[1]) =
                             LowWord(SumDigits(RunOperand(vm, last', last'.args[2]),
                                               RunOperand(vm, last', last'.args[3])))
                       /\ R(vm', last'.args[1]) =
                             Arith(last'.op, RunOperand(vm, last', last'.args[3]),
                                   RunOperand(vm, last', last'.args[2]))
               /\ last'.op = Ord("-")
                    => LowWord(SumDigits(R(vm', last'.args[1]),
                                         RunOperand(vm, last', last'.args[3]))) =
                           RunOperand(vm, last', last'.args[2])
               /\ last'.op = Ord("*")
                    => R(vm', last'.args[1]) =
                           LowWord(ProductDigits(RunOperand(vm, last', last'.args[2]),
                                                 RunOperand(vm, last', last'.args[3])))
       /\ (/\ engine = "eval"
           /\ last'.op \in {Ord("+"), Ord("-"), Ord("*")}
           /\ PlainOperands(last'))
            => /\ ev'.halt = 0
               /\ Acc(ev') \in 0..255
               /\ last'.op = Ord("+")
                    => /\ Acc(ev') = (ev.r[last'.args[1]] + ev.r[last'.args[2]]) % 256
                       /\ Acc(ev') =
                             EvalBinary(last'.op, ev.r[last'.args[2]], ev.r[last'.args[1]])
               /\ last'.op = Ord("-")
                    => (Acc(ev') + ev.r[last'.args[2]]) % 256 = ev.r[last'.args[1]]
               /\ last'.op = Ord("*")
                    => Acc(ev') = (ev.r[last'.args[1]] * ev.r[last'.args[2]]) % 256]_vars

\* C15's case: glyph_run has added the word ~1 = 2^32 - 2 to itself and the
\* sum has wrapped to 2^32 - 4
C15_SumWrapped ==
    /\ engine = "run"
    /\ last.op = Ord("+")
    /\ last.args = Bytes("hcc")
    /\ R(vm, Ord("c")) = WNot(W(1))
    /\ R(vm, Ord("h")) = WNot(W(3))
    /\ vm.halt = 0

\* the value glyph_eval's instruction l reads through its operand byte reg,
\* seen from the state v before l: the top of the stack for ',', the PC
\* after l's fetches for '.'
EvalOperand(v, l, reg) ==
    IF reg = COMMA THEN v.s[(v.T - 1) % SIZE]
    ELSE IF reg = DOT THEN (l.argat[Len(l.argat)] + 1) % SIZE
    ELSE v.r[reg]

\* C16: for every opcode of both engines all operand register values are
\* read before the instruction writes any register: an arithmetic
\* instruction computes from the values its source registers held before it
\* (+aaa leaves a = 2 * old(a) mod 2^w), and a call  ;a  jumps to the value
\* the register a held before the call's own writes, also when a names the
\* stack pointer ','.
C16_OperandsReadBeforeWrites ==
    [][/\ (engine = "run" /\ last'.op \in ArithOps /\ Complete(last'))
            => R(vm', last'.args[1]) =
                   Arith(last'.op, RunOperand(vm, last', last'.args[2]),
                         RunOperand(vm, last', last'.args[3]))
       /\ (engine = "run" /\ last'.op = SEMI /\ Complete(last'))
            => PC(vm') = RunOperand(vm, last', last'.args[1])
       /\ (engine = "eval" /\ last'.op \in EvalBinaryOps /\ PlainOperands(last'))
            => Acc(ev') = EvalBinary(last'.op, ev.r[last'.args[1]], ev.r[last'.args[2]])
       /\ (engine = "eval" /\ last'.op = SEMI)
            => ev'.r[DOT] = EvalOperand(ev, last', last'.args[1])]_vars

\* the calls of the callback fn among the calls c
CallsOf(c, fn) == SelectSeq(c, LAMBDA x : x[1] = fn)

\* the instruction l is glyph_eval's port instruction  #Sb  with selector S
PortOp(l, sel) == l.op = Ord("#") /\ l.args[1] = sel

\* the program text at address 0 of glyph_eval's memory is prog
EvalText(v, prog) ==
    /\ \A i \in 1..Len(prog) : v.m[i - 1] = prog[i]
    /\ v.m[Len(prog)] = 0

\* C17: in glyph_eval with an output callback e registered, the port write
\* #>b  with accumulator value A first stores R(b) into port[A] and then
\* calls e exactly once with argument A (the callback finds the stored
\* value in the port); no other instruction calls e, and without a
\* registered callback e is never called.  The program that writes 99 to
\* port 5 ends with port[5] = 99 and exactly one call, e(5).
C17_EmitAfterStore ==
    [][engine = "eval" =>
         /\ (PortOp(last', Ord(">")) /\ ev.e)
              => /\ ev'.p[Acc(ev)] = EvalOperand(ev, last', last'.args[2])
                 /\ calls' = Append(calls, <<"e", Acc(ev), ev'.p[Acc(ev)]>>)
         /\ ~(PortOp(last', Ord(">")) /\ ev.e)
              => CallsOf(calls', "e") = CallsOf(calls, "e")
         /\ (ev.e /\ ev'.halt = 1 /\ EvalText(ev, Bytes("'c=b 5#>b")))
              => ev'.p[5] = 99 /\ CallsOf(calls', "e") = <<<<"e", 5, 99>>>>]_vars

\* C17's case: glyph_eval, with the output callback registered, has run the
\* program that writes 99 to port 5 to its end
C17_EmittedOnce ==
    /\ engine = "eval"
    /\ ev.e
    /\ ev.halt = 1
    /\ EvalText(ev, Bytes("'c=b 5#>b"))
    /\ ev.p[5] = 99
    /\ calls = <<<<"e", 5, 99>>>>

\* C18: in glyph_eval with an input callback h registered, the port read
\* #<b  with accumulator value A calls h exactly once with argument A before
\* port[A] is read, so the value written to register b is the value h left
\* in port[A]; no other instruction calls h, and without a registered
\* callback h is never called.
C18_HearBeforeRead ==
    [][engine = "eval" =>
         /\ (PortOp(last', Ord("<")) /\ ev.h)
              => /\ calls' = Append(calls, <<"h", Acc(ev), ev'.p[Acc(ev)]>>)
                 /\ glyph_getr(ev', last'.args[2]) = ev'.p[Acc(ev)]
         /\ ~(PortOp(last', Ord("<")) /\ ev.h)
              => CallsOf(calls', "h") = CallsOf(calls, "h")]_vars

\* C18's case: glyph_eval, with the input callback registered, has read the
\* console port, which held 0; the callback left the byte 'A' there and the
\* destination register holds it
C18_HeardInput ==
    /\ engine = "eval"
    /\ ev.h
    /\ last.op = Ord("#")
    /\ last.args = Bytes("<b")
    /\ calls = <<<<"h", CON_CONSOLE, Ord("A")>>>>
    /\ ev.p[CON_CONSOLE] = Ord("A")
    /\ ev.r[Ord("b")] = Ord("A")

\* C19: when no callback is registered a port is plain storage separate
\* from memory, in both engines: a port read returns what the port holds
\* and changes no port, a port write changes that port, no other port and
\* no memory byte, and no other instruction (a memory write among them)
\* changes a port; so a read returns the value last written to the port, or
\* the value it was given before the run.
C19_PortsArePlainStorage ==
    [][/\ engine = "run" =>
            /\ (last'.op = Ord(")") /\ Complete(last'))
                 => /\ vm'.mem = vm.mem
                    /\ vm'.port =
                          [vm.port EXCEPT
                              ![RunOperand(vm, last', last'.args[1])[2] % 256] =
                                  RunOperand(vm, last', last'.args[2])]
            /\ (last'.op = Ord("(") /\ Complete(last'))
                 => R(vm', last'.args[1]) =
                        vm.port[RunOperand(vm, last', last'.args[2])[2] % 256]
            /\ last'.op # Ord(")") => vm'.port = vm.port
            /\ calls' = calls
       /\ (engine = "eval" /\ ~ev.e /\ ~ev.h) =>
            /\ PortOp(last', Ord(">"))
                 => /\ ev'.m = ev.m
                    /\ ev'.p = [ev.p EXCEPT
                                   ![Acc(ev)] = EvalOperand(ev, last', last'.args[2])]
            /\ PortOp(last', Ord("<"))
                 => glyph_getr(ev', last'.args[2]) = ev.p[Acc(ev)]
            /\ ~PortOp(last', Ord(">")) => ev'.p = ev.p
            /\ calls' = calls]_vars

\* C19's case: glyph_run has written 42 to the memory cell 50 and 99 to the
\* port 50, and has read both back
C19_PortBesideMemory ==
    /\ engine = "run"
    /\ last.op = Ord("(")
    /\ vm.mem[50] = 42
    /\ vm.port[50] = W(99)
    /\ R(vm, Ord("c")) = W(42)
    /\ R(vm, Ord("e")) = W(99)

\* the program text at address 0 of glyph_run's memory is prog
RunText(v, prog) ==
    /\ \A i \in 1..Len(prog) : v.mem[i - 1] = prog[i]
    /\ v.mem[Len(prog)] = 0

\* C20: in glyph_run the port write  #>ab  stores R(b) into
\* port[R(a) mod 256] and the port read  #<ba  loads port[R(a) mod 256] into
\* register b (# is an opcode that takes the selector and two register
\* names): after  :ax5 :bgc #>ab  port[5] = 99, and with port[10] preset to
\* 77 the program  :axa #<ba  leaves register b = 77.
C20_HashPortOpcodes ==
    [][engine = "run" =>
         /\ (last'.op = Ord("#") /\ last'.at + 3 < vm.size)
              => Len(last'.args) = 3
         /\ (vm'.halt = 1 /\ RunText(vm, Bytes(":ax5 :bgc #>ab")))
              => vm'.port[5] = W(99)
         /\ (vm'.halt = 1 /\ RunText(vm, Bytes(":axa #<ba")) /\ vm.port[10] = W(77))
              => R(vm', Ord("b")) = W(77)]_vars

\* glyph_run is about to start: the state glyph_init and the host left
Started == engine = "run" /\ last = NoTrace /\ vm.halt = 0

\* C21: after glyph_init(vm, mem, size) the stack-pointer register ','
\* holds the top of the buffer (the value size), every other register and
\* every port is 0 (but for the port the ports test sets after glyph_init),
\* the halt flag is clear, and the engine is bound to mem and size.
C21_InitSetsStackPointer ==
    Started =>
        /\ SP(vm) = W(vm.size)
        /\ \A i \in 0..127 : i # COMMA => vm.reg[i] = WZero
        /\ \A i \in 0..255 : vm.port[i] = WZero \/ (i = 10 /\ vm.port[i] = W(77))
        /\ vm.halt = 0
        /\ DOMAIN vm.mem = 0..vm.size - 1

\* the buffer that holds the text of v's program and zeroes after it
Fresh(v) == [v EXCEPT !.mem = [i \in 0..v.size - 1 |-> IF i < ProgramEnd(v) THEN v.mem[i] ELSE 0]]

\* C22: reset-and-rerun is deterministic: after glyph_init and the copy of
\* a program with its terminating 0 to the start of mem (the tests' run),
\* the registers and the ports glyph_run ends with are those it ends with
\* when the rest of the buffer is zero, whatever earlier programs left there.
C22_RerunIsDeterministic ==
    (Started /\ \E prog \in RunAgain : RunText(vm, prog)) =>
        /\ glyph_run(vm, MaxSteps).reg = glyph_run(Fresh(vm), MaxSteps).reg
        /\ glyph_run(vm, MaxSteps).port = glyph_run(Fresh(vm), MaxSteps).port

\* the halt flag of the running engine
HaltFlag == IF engine = "run" THEN vm.halt ELSE ev.halt

\* C23: in both engines run returns only in a state where the halt flag is
\* set and never while it is clear (a looping program never returns), and a
\* run started with the halt flag already set returns at once: with the
\* flag set the only step is the return, which fetches no byte and changes
\* no register, memory byte, port or stack cell and calls no callback.
C23_ReturnsIffHalted ==
    /\ [](returned => HaltFlag = 1)
    /\ [][IF HaltFlag = 1
          THEN returned' /\ UNCHANGED <<engine, vm, ev, last, calls>>
          ELSE ~returned']_vars

\* glyph_run, entered with the halt flag set, has returned at once: nothing
\* was fetched, the PC is 0 and the program's first load has not happened
C23_ReturnedAtOnce ==
    /\ engine = "run" /\ returned /\ vm.halt = 1
    /\ last = NoTrace /\ PC(vm) = WZero
    /\ RunText(vm, Bytes(":ax9")) /\ R(vm, Ord("a")) = WZero

\* C24: in both engines the register file has 128 slots and every operand
\* byte used as a register name is reduced into 0..127: the bytes x and
\* x + 128 name the same register, and no register read or write touches a
\* slot outside 0..127.  Checked on the additions  + c a b  of glyph_run,
\* on the stores  =x  and the additions  +ab  of glyph_eval, and on every
\* slot above 127.
C24_RegisterNamesMasked ==
    [][/\ (/\ engine = "run" /\ last'.op = Ord("+") /\ Complete(last')
           /\ \A i \in 1..3 : last'.args[i] % 128 # DOT)
          => /\ DOMAIN vm'.reg = 0..127
             /\ vm'.reg[last'.args[1] % 128]
                  = LowWord(SumDigits(vm.reg[last'.args[2] % 128],
                                      vm.reg[last'.args[3] % 128]))
       /\ (/\ engine = "eval" /\ last'.op = ACCR /\ Complete(last')
           /\ last'.args[1] % 128 \notin {COMMA, DOT, ACCR})
          => ev'.r[last'.args[1] % 128] = Acc(ev)
       /\ (/\ engine = "eval" /\ last'.op = Ord("+") /\ Complete(last')
           /\ \A i \in 1..2 : last'.args[i] % 128 \notin {COMMA, DOT, ACCR})
          => Acc(ev') = (ev.r[last'.args[1] % 128] + ev.r[last'.args[2] % 128]) % 256
       /\ engine = "eval" => \A i \in 128..255 : i \in DOMAIN ev'.r => ev'.r[i] = 0]_vars

\* the bytes C's isspace accepts: tab, newline, VT, FF, CR and the space
Whitespace == {9, 10, 11, 12, 13, 32}

\* the addresses from the opcode's to the last operand's that the
\* instruction l fetched nothing from
Skipped(l) == {i \in l.at..l.argat[Len(l.argat)] : i # l.at /\ \A j \in 1..Len(l.argat) : l.argat[j] # i}

C26_NonDigitFlushesLiteral ==
    [][engine = "eval" =>
          /\ last'.op \in Whitespace
                => /\ Acc(ev') = 0
                   /\ ev' = [ev EXCEPT !.r[ACCR] = 0, !.r[DOT] = (last'.at + 1) % SIZE]
          /\ (/\ last'.op \in EvalDigits
              /\ last.op \notin EvalDigits \cup {-1}
              /\ Complete(last))
                => Acc(ev') = last'.op - Ord("0")]_vars

\* the number that the decimal digits ending at address i of glyph_eval's
\* memory write (0 when the byte at i is no digit)
RECURSIVE LiteralValue(_, _)
LiteralValue(v, i) ==
    IF i < 0 \/ v.m[i] \notin EvalDigits THEN 0
    ELSE LiteralValue(v, i - 1) * 10 + (v.m[i] - Ord("0"))

\* C27: in glyph_eval each digit byte d in opcode position sets the
\* accumulator to (accumulator * 10 + value(d)) mod 256 and changes no other
\* register than the PC (nor memory, stack or ports); so, starting from
\* accumulator 0, a run of digits d1..dk leaves the accumulator equal to the
\* decimal value of d1..dk mod 256: if before the digit the accumulator
\* holds the value mod 256 of the digits written before it (0 when there is
\* none), it holds after it the value mod 256 of the digits up to it.
C27_DigitsAccumulate ==
    [][(engine = "eval" /\ last'.op \in EvalDigits) =>
          /\ Acc(ev') = (Acc(ev) * 10 + (last'.op - Ord("0"))) % 256
          /\ ev' = [ev EXCEPT !.r[ACCR] = (Acc(ev) * 10 + (last'.op - Ord("0"))) % 256,
                              !.r[DOT] = (last'.at + 1) % SIZE]
          /\ Acc(ev) = LiteralValue(ev, last'.at - 1) % 256
                => Acc(ev') = LiteralValue(ev, last'.at) % 256]_vars

\* the literal 2565 has been read, from accumulator 0, one digit per
\* instruction: the accumulator holds 2565 mod 256 = 5
C27_LiteralWrapped ==
    /\ engine = "eval"
    /\ last.op = Ord("5") /\ last.at = 9
    /\ [i \in 1..10 |-> ev.m[i - 1]] = Bytes("300=a 2565")
    /\ LiteralValue(ev, last.at) = 2565
    /\ ev.r[Ord("a")] = 44
    /\ Acc(ev) = 5

\* the operand values of the sums of EvalPairs
SumValues == 0..MaxVal \cup {3, 5, 99, 100, 200, 255}

\* C28: for all x and y in 0..255 written as decimal literals (here the
\* values of SumValues), glyph_eval halts on  x=a y=b +ab=c  with a = x,
\* b = y and c = (x + y) mod 256 (5, 3 and 8 for  5=a 3=b +ab=c); glyph_run
\* halts on the three-operand program  :axX :bxY +cab  with the hex digits
\* X and Y with c = value(X) + value(Y).
C28_SumPrograms ==
    /\ \A x \in SumValues, y \in SumValues :
          (/\ engine = "eval" /\ ev.halt = 1
           /\ EvalText(ev, Decimal(x) \o Bytes("=a ") \o Decimal(y) \o Bytes("=b +ab=c")))
          => /\ ev.r[Ord("a")] = x
             /\ ev.r[Ord("b")] = y
             /\ ev.r[Ord("c")] = (x + y) % 256
    /\ \A X \in HexDigits, Y \in HexDigits :
          (/\ engine = "run" /\ vm.halt = 1
           /\ RunText(vm, Bytes(":ax") \o <<X>> \o Bytes(" :bx") \o <<Y>> \o Bytes(" +cab")))
          => /\ R(vm, Ord("a")) = W(HexDigitValue(X))
             /\ R(vm, Ord("b")) = W(HexDigitValue(Y))
             /\ R(vm, Ord("c")) = W(HexDigitValue(X) + HexDigitValue(Y))

\* glyph_eval has halted on  200=a 100=b +ab=c  with c = 300 mod 256
C28_SumWrappedTo44 ==
    /\ engine = "eval" /\ ev.halt = 1 /\ last.op = 0
    /\ EvalText(ev, Bytes("200=a 100=b +ab=c"))
    /\ ev.r[Ord("a")] = 200 /\ ev.r[Ord("b")] = 100 /\ ev.r[Ord("c")] = 44

\* C29: in glyph_run, after glyph_init and the copy of the README usage
\* program  :ad5 :bd3 +cab  with its terminating 0 to address 0, the run
\* halts with reg['a'] = 5, reg['b'] = 3 and reg['c'] = 8.
C29_ReadmeUsageProgram ==
    (engine = "run" /\ vm.halt = 1 /\ RunText(vm, Bytes(":ad5 :bd3 +cab")))
        => /\ R(vm, Ord("a")) = W(5)
           /\ R(vm, Ord("b")) = W(3)
           /\ R(vm, Ord("c")) = W(8)

\* C30: a return executed with no matching call never faults and is
\* deterministic in both engines: in glyph_eval  ,.  sets the PC to the
\* stack cell below T and decrements T mod 256, so with T = 0 it wraps T to
\* 255 and sets the PC to s[255]; in glyph_run  ,  sets the PC to the
\* little-endian 32-bit word in mem[(SP + 0..3) mod size] and adds 4 to SP;
\* neither sets the halt flag or changes anything else, and every index
\* stays inside its array.
C30_UnmatchedReturn ==
    [][/\ (engine = "eval" /\ last'.op = COMMA /\ last'.args = <<DOT>>)
          => /\ (ev.T + 255) % 256 \in DOMAIN ev.s
             /\ ev' = [ev EXCEPT !.T = (ev.T + 255) % 256,
                                 !.r[DOT] = ev.s[(ev.T + 255) % 256]]
             /\ ev.T = 0 => (ev'.T = 255 /\ ev'.r[DOT] = ev.s[255])
             /\ ev'.halt = 0
       /\ (engine = "run" /\ last'.op = COMMA)
          => /\ \A i \in 0..3 : (SP(vm)[2] + i) % vm.size \in DOMAIN vm.mem
             /\ vm' = [vm EXCEPT
                         !.reg[DOT] = WFromBytes(vm.mem[(SP(vm)[2] + 0) % vm.size],
                                                 vm.mem[(SP(vm)[2] + 1) % vm.size],
                                                 vm.mem[(SP(vm)[2] + 2) % vm.size],
                                                 vm.mem[(SP(vm)[2] + 3) % vm.size]),
                         !.reg[COMMA] = LowWord(SumDigits(SP(vm), W(4)))]
             /\ vm'.halt = 0]_vars

\* glyph_eval has executed  ,.  on the empty stack of  1=a ,. 2=b: T has
\* wrapped to 255 and the PC is s[255] = 0
C30_ReturnedOnEmptyStack ==
    /\ engine = "eval" /\ ev.halt = 0
    /\ EvalText(ev, Bytes("1=a ,. 2=b"))
    /\ last.op = COMMA /\ last.args = <<DOT>> /\ last.at = 4
    /\ ev.T = 255 /\ ev.r[DOT] = 0 /\ ev.r[Ord("a")] = 1

\* the 14 bytes of the relative jump with offset digit N and opcode op are
\* at the PC of v, which is about to execute them
AtJumpPattern(v, op, N) ==
    /\ v.halt = 0 /\ PC(v)[1] = 0 /\ PC(v)[2] + 13 < v.size
    /\ [i \in 1..14 |-> v.mem[PC(v)[2] + i - 1]]
          = Bytes(":t..:ox") \o <<N, op>> \o Bytes("tto.t")

\* (P + 4) + n or (P + 4) - n as a 32-bit word
JumpTarget(P, op, n) ==
    IF op = Ord("+") THEN W(P + 4 + n)
    ELSE IF P + 4 >= n THEN W(P + 4 - n) ELSE <<Half - 1, Half + P + 4 - n>>

\* C31: in glyph_run, for the 14-byte relative-jump pattern  :t..  :oxN
\* +tto  .t  at address P with no whitespace inside it: after  :t..
\* register t = P + 4; after the whole pattern the PC is P + 4 + value(N)
\* (so an offset of n + 10 lands n bytes after the end of the pattern), and
\* with  -tto  it is (P + 4) - value(N) mod 2^32; the next opcode is fetched
\* there when that address is inside the buffer and holds no whitespace.
C31_RelativeJumpPattern ==
    \A op \in {Ord("+"), Ord("-")}, N \in HexDigits :
        (engine = "run" /\ AtJumpPattern(vm, op, N)) =>
            /\ R(glyph_run(vm, 1), Ord("t")) = W(PC(vm)[2] + 4)
            /\ R(glyph_run(vm, 2), Ord("o")) = W(HexDigitValue(N))
            /\ glyph_run(vm, 4).halt = 0
            /\ PC(glyph_run(vm, 4)) = JumpTarget(PC(vm)[2], op, HexDigitValue(N))
            /\ (op = Ord("+") /\ HexDigitValue(N) >= 10)
                  => PC(glyph_run(vm, 4))[2] = PC(vm)[2] + 14 + (HexDigitValue(N) - 10)
            /\ (/\ Inside(vm, JumpTarget(PC(vm)[2], op, HexDigitValue(N)))
                /\ ~isspace(vm.mem[JumpTarget(PC(vm)[2], op, HexDigitValue(N))[2]]))
                  => fetch(glyph_run(vm, 4)).at
                        = JumpTarget(PC(vm)[2], op, HexDigitValue(N))[2]

\* the pattern at address 5 with offset c has jumped 2 bytes past its end:
\* the jump is the latest instruction, t = 5 + 4 + 12 and the PC is 21
C31_JumpedPastPattern ==
    /\ engine = "run" /\ vm.halt = 0
    /\ [i \in 1..14 |-> vm.mem[5 + i - 1]] = Bytes(":t..:oxc+tto.t")
    /\ last.op = DOT /\ last.at = 17 /\ last.args = Bytes("t")
    /\ R(vm, Ord("t")) = W(21) /\ R(vm, Ord("o")) = W(12)
    /\ PC(vm) = W(21)

\* the values pushed by the programs  x=, y=, +,,=a
PushedValues == 0..MaxVal \cup {34, 35, 100, 200}

\* C32: in glyph_eval the register name ',' is a LIFO stack port: a write
\* to ',' pushes the value (into s[T], T + 1 mod 256) and each read of ','
\* pops one (s[T - 1], T - 1 mod 256), neither touching another stack cell,
\* so that after pushing v1..vk, k reads return vk, ..., v1 and leave T at
\* its starting value:  1=, 2=, 3=, ,a ,b ,c  ends with a = 3, b = 2, c = 1
\* and  x=, y=, +,,=a  with a = (x + y) mod 256, both with T back at 0.
C32_CommaIsLifoStack ==
    /\ [][engine = "eval" =>
            /\ (last'.op = ACCR /\ last'.args = <<COMMA>>)
                  => ev' = [ev EXCEPT !.s[ev.T] = Acc(ev),
                                      !.T = (ev.T + 1) % 256,
                                      !.r[ACCR] = 0,
                                      !.r[DOT] = (last'.argat[1] + 1) % 256]
            /\ (/\ last'.op = COMMA /\ Len(last'.args) = 1
                /\ last'.args[1] \notin {COMMA, DOT})
                  => ev' = [ev EXCEPT !.r[last'.args[1]] = ev.s[(ev.T + 255) % 256],
                                      !.T = (ev.T + 255) % 256,
                                      !.r[DOT] = (last'.argat[1] + 1) % 256]
            /\ (last'.op = Ord("+") /\ last'.args = <<COMMA, COMMA>>)
                  => ev' = [ev EXCEPT !.r[ACCR] = (ev.s[(ev.T + 255) % 256]
                                                    + ev.s[(ev.T + 254) % 256]) % 256,
                                      !.T = (ev.T + 254) % 256,
                                      !.r[DOT] = (last'.argat[2] + 1) % 256]]_vars
    /\ [](/\ (engine = "eval" /\ ev.halt = 1 /\ EvalText(ev, Bytes("1=, 2=, 3=, ,a ,b ,c")))
               => /\ ev.r[Ord("a")] = 3 /\ ev.r[Ord("b")] = 2 /\ ev.r[Ord("c")] = 1
                  /\ ev.T = 0
          /\ \A x \in PushedValues, y \in PushedValues :
                (/\ engine = "eval" /\ ev.halt = 1
                 /\ ev.m[Len(Decimal(x))] = ACCR
                 /\ EvalText(ev, Decimal(x) \o Bytes("=, ") \o Decimal(y) \o Bytes("=, +,,=a")))
                => (ev.r[Ord("a")] = (x + y) % 256 /\ ev.T = 0))

\* three values pushed and popped: glyph_eval has halted on
\* 1=, 2=, 3=, ,a ,b ,c  with a = 3, b = 2, c = 1 and T = 0
C32_PoppedInReverse ==
    /\ engine = "eval" /\ ev.halt = 1 /\ last.op = 0
    /\ EvalText(ev, Bytes("1=, 2=, 3=, ,a ,b ,c"))
    /\ ev.r[Ord("a")] = 3 /\ ev.r[Ord("b")] = 2 /\ ev.r[Ord("c")] = 1
    /\ ev.s[0] = 1 /\ ev.s[1] = 2 /\ ev.s[2] = 3 /\ ev.T = 0

\* C33: in glyph_eval the two-byte instruction  .x  at address p stores
\* (p + 2) mod 256, the address of the byte following the instruction, in
\* register x and changes nothing else but the PC; the program  .a.b.c.d
\* therefore ends with a = 2, b = 4, c = 6, d = 8.
C33_DotCopiesNextAddress ==
    /\ [][(/\ engine = "eval" /\ last'.op = DOT /\ Len(last'.args) = 1
           /\ last'.args[1] # COMMA)
            => /\ last'.argat[1] = (last'.at + 1) % 256
               /\ ev'.r[last'.args[1]] = (last'.at + 2) % 256
               /\ ev' = [ev EXCEPT !.r[DOT] = (last'.at + 2) % 256,
                                   !.r[last'.args[1]] = (last'.at + 2) % 256]]_vars
    /\ []((engine = "eval" /\ ev.halt = 1 /\ EvalText(ev, Bytes(".a.b.c.d")))
            => /\ ev.r[Ord("a")] = 2 /\ ev.r[Ord("b")] = 4
               /\ ev.r[Ord("c")] = 6 /\ ev.r[Ord("d")] = 8)

\* glyph_eval has halted on  .a.b.c.d  with the four addresses stored
C33_LabelsStored ==
    /\ engine = "eval" /\ ev.halt = 1 /\ last.op = 0 /\ last.at = 8
    /\ EvalText(ev, Bytes(".a.b.c.d"))
    /\ ev.r[Ord("a")] = 2 /\ ev.r[Ord("b")] = 4
    /\ ev.r[Ord("c")] = 6 /\ ev.r[Ord("d")] = 8

\* the Glyph at the moment the iteration that starts in v sets the halt
\* flag: after the first fetch, of the opcode or of one of up to three
\* operands, that finds the PC outside the buffer, or else at case 0
HaltMoment(v) ==
    IF fetch(v).vm.halt = 1 THEN fetch(v).vm
    ELSE IF fetch(v).b = 0 THEN Halt(fetch(v).vm)
    ELSE IF fetch(fetch(v).vm).vm.halt = 1 THEN fetch(fetch(v).vm).vm
    ELSE IF fetch(fetch(fetch(v).vm).vm).vm.halt = 1 THEN fetch(fetch(fetch(v).vm).vm).vm
    ELSE fetch(fetch(fetch(fetch(v).vm).vm).vm).vm

\* C34: in glyph_run, once the halt flag has been set during a run, no
\* register, memory byte or port is written afterwards and no further byte
\* is fetched: the state the iteration that sets the flag ends in, which is
\* the state glyph_run returns in, equals the state at the moment the flag
\* was set.
C34_NothingAfterHalt ==
    [][/\ (engine = "run" /\ vm.halt = 0 /\ vm'.halt = 1) => vm' = HaltMoment(vm)
       /\ (engine = "run" /\ vm.halt = 1) => vm' = vm]_vars

\* the opcodes of glyph_run whose first operand names the register written
DestOpcodes == ArithOps \cup BitwiseOps \cup {TILDE, COLON, Ord("@"), Ord("(")}

\* the instruction with opcode op and first operand byte a is a jump, a
\* call, a return, or has the PC register as its destination
SetsPC(op, a) == op \in {DOT, SEMI, COMMA} \/ (op \in DestOpcodes /\ a % 128 = DOT)

\* the address of the last byte the instruction l fetched
LastFetched(l) == IF Len(l.args) = 0 THEN l.at ELSE l.argat[Len(l.args)]

\* glyph_run, started in v, sets the halt flag within n iterations or
\* comes to an instruction that sets the PC
RECURSIVE HaltsOrSetsPC(_, _)
HaltsOrSetsPC(v, n) ==
    \/ v.halt = 1
    \/ fetch(v).vm.halt = 1
    \/ SetsPC(fetch(v).b, fetch(fetch(v).vm).b)
    \/ n > 0 /\ HaltsOrSetsPC((CHOOSE r \in Switch(fetch(v)) : TRUE).vm, n - 1)

\* C35 as stated: in glyph_run every fetch leaves the PC strictly greater
\* than before (so does every iteration of the loop, which starts with a
\* fetch, unless it sets the PC), so a run that sets the PC by no
\* instruction sets the halt flag after at most size fetches.
C35_EveryFetchAdvances ==
    [][(/\ engine = "run" /\ vm.halt = 0 /\ ~returned'
        /\ ~(last'.op # -1 /\ SetsPC(last'.op, IF Len(last'.args) > 0 THEN last'.args[1] ELSE 0)))
          => ~WLe(PC(vm'), PC(vm))]_vars

\* C35: in glyph_run every fetch that reads a byte reads it at or after the
\* PC and leaves the PC just after it, strictly greater than before, while a
\* fetch with the PC outside the buffer sets the halt flag and leaves the PC
\* where it is; so an iteration that sets the PC by no instruction reads
\* bytes at strictly increasing addresses from the PC on and either leaves
\* the PC after the last of them or sets the halt flag, and a run that
\* executes no such instruction sets the halt flag within size + 1
\* iterations.
C35_StraightRunsHalt ==
    /\ [][(engine = "run" /\ vm.halt = 0 /\ ~returned') =>
            /\ last'.op = -1 => (vm'.halt = 1 /\ ~Inside(vm', PC(vm')) /\ WLe(PC(vm), PC(vm')))
            /\ last'.op # -1 =>
                  /\ PC(vm)[1] = 0 /\ PC(vm)[2] <= last'.at /\ last'.at < vm.size
                  /\ \A i \in 1..Len(last'.args) :
                        \/ last'.argat[i] = -1 /\ vm'.halt = 1
                        \/ /\ last'.argat[i] > (IF i = 1 THEN last'.at ELSE last'.argat[i - 1])
                           /\ last'.argat[i] < vm.size
                  /\ ~SetsPC(last'.op, IF Len(last'.args) > 0 THEN last'.args[1] ELSE 0)
                        => \/ vm'.halt = 1 /\ WLe(PC(vm), PC(vm'))
                           \/ /\ PC(vm')[1] = 0
                              /\ PC(vm')[2] > LastFetched(last')
                              /\ PC(vm')[2] <= LastFetched(last') + 2]_vars
    /\ [](Started => HaltsOrSetsPC(vm, vm.size + 1))

\* a buffer without a 0 byte and without an instruction that sets the PC
\* has been run through: the last byte was fetched, the next fetch found the
\* PC at size and set the halt flag
C35_RanOffTheEnd ==
    /\ engine = "run" /\ vm.halt = 1 /\ last = NoTrace
    /\ PC(vm) = W(vm.size)
    /\ \A i \in 4..vm.size - 1 : vm.mem[i] = Ord("z")
    /\ R(vm, Ord("a")) = W(1)

\* C36: in glyph_eval data values and return addresses share one stack
\* (array s, index T): the call  ;x  pushes the PC into s[T] as a write to
\* ',' pushes its value, and the return  ,.  sets the PC to s[T - 1], the
\* value most recently pushed and not yet popped, whichever of the two
\* pushed it; a read of ',' inside a subroutine that pushed nothing pops
\* the caller's return address.  After  12=, ,.  execution goes on at
\* address 12; in the subroutine  ,x  called by  ;f  at address 5, x
\* receives the address the call pushed and the stack is empty again.
C36_OneStackForDataAndReturns ==
    /\ [][engine = "eval" =>
            /\ (/\ last'.op = SEMI /\ Len(last'.args) = 1
                /\ last'.args[1] \notin {COMMA, DOT})
                  => ev' = [ev EXCEPT !.s[ev.T] = (last'.at + 1) % 256,
                                      !.T = (ev.T + 1) % 256,
                                      !.r[DOT] = ev.r[last'.args[1]]]
            /\ (last'.op = ACCR /\ last'.args = <<COMMA>>)
                  => (ev'.s[ev.T] = Acc(ev) /\ ev'.T = (ev.T + 1) % 256)
            /\ (last'.op = COMMA /\ Len(last'.args) = 1 /\ last'.args[1] # COMMA)
                  => /\ ev'.r[last'.args[1]] = ev.s[(ev.T + 255) % 256]
                     /\ ev'.T = (ev.T + 255) % 256
                     /\ ev'.s = ev.s
            /\ (/\ last.op = SEMI /\ last.args # <<COMMA>>
                /\ last'.op = COMMA /\ Len(last'.args) = 1
                /\ last'.args[1] # COMMA)
                  => ev'.r[last'.args[1]] = (last.at + 1) % 256]_vars
    /\ [](/\ (engine = "eval" /\ ev.halt = 1 /\ EvalText(ev, Bytes("12=, ,. 1=a 2=b")))
               => (ev.r[Ord("a")] = 0 /\ ev.r[Ord("b")] = 2 /\ ev.T = 0)
          /\ (engine = "eval" /\ ev.halt = 1 /\ EvalText(ev, Bytes("12=f ;f 1=a"))
                 /\ ev.m[12] = COMMA)
               => (ev.r[Ord("x")] = 6 /\ ev.r[Ord("a")] = 0 /\ ev.T = 0))

\* the subroutine at address 12, called by  ;f  at address 5, has popped
\* its caller's return address into x with  ,x  and the run has halted
C36_PoppedReturnAddress ==
    /\ engine = "eval" /\ ev.halt = 1 /\ last.op = 0 /\ last.at = 14
    /\ EvalText(ev, Bytes("12=f ;f 1=a")) /\ ev.m[12] = COMMA /\ ev.m[13] = Ord("x")
    /\ ev.s[0] = 6 /\ ev.r[Ord("x")] = 6 /\ ev.T = 0 /\ ev.r[Ord("a")] = 0

\* the value  PC = R(a)  reads at the end of the call l executed from v: the
\* register a as the call's own fetch and decrement have left it
CallTarget(v, l) ==
    IF BitAnd(l.args[1], 127) = COMMA THEN WSub(SP(v), W(4))
    ELSE RunOperand(v, l, l.args[1])

\* C37: in glyph_run a call  ;a  changes exactly the stack pointer
\* (SP - 4 mod 2^32: the word that plus 4 gives the old SP), the four
\* memory bytes at the cells ((SP - 4) + 0..3) mod size, which receive the
\* return address (the address after the operand byte) least significant
\* byte first, and the PC, which receives R(a); every other register, every
\* other memory byte, every port, the size and the halt flag keep their
\* values.  A return  ,  changes only the PC and the SP (SP + 4) and no
\* memory byte.
C37_CallAndReturnFrame ==
    [][engine = "run" =>
         /\ (last'.op = SEMI /\ Complete(last'))
              => /\ LowWord(SumDigits(SP(vm'), W(4))) = SP(vm)
                 /\ \A i \in 0..3 :
                      vm'.mem[(SP(vm')[2] + i) % vm.size] =
                          WBytes(W(last'.argat[1] + 1))[i + 1]
                 /\ \A j \in 0..vm.size - 1 :
                      j \notin {(SP(vm')[2] + i) % vm.size : i \in 0..3}
                          => vm'.mem[j] = vm.mem[j]
                 /\ PC(vm') = CallTarget(vm, last')
                 /\ \A x \in 0..127 : x \notin {DOT, COMMA} => vm'.reg[x] = vm.reg[x]
                 /\ vm'.port = vm.port /\ vm'.size = vm.size /\ vm'.halt = vm.halt
         /\ last'.op = COMMA
              => /\ SP(vm') = LowWord(SumDigits(SP(vm), W(4)))
                 /\ vm'.mem = vm.mem
                 /\ \A x \in 0..127 : x \notin {DOT, COMMA} => vm'.reg[x] = vm.reg[x]
                 /\ vm'.port = vm.port /\ vm'.size = vm.size /\ vm'.halt = vm.halt]_vars

\* a call  ;f  executed with SP = 0 and f = 16: the SP has wrapped to
\* 2^32 - 4, the return address is in the last four bytes of the memory
\* below a program byte left alone, and the PC is 16
C37_CalledSubroutine ==
    /\ engine = "run" /\ last.op = SEMI /\ last.args = Bytes("f")
    /\ SP(vm) = <<Half - 1, Half - 4>>
    /\ PC(vm) = W(16) /\ R(vm, Ord("f")) = W(16)
    /\ vm.mem[vm.size - 4] = last.argat[1] + 1
    /\ vm.mem[0] = COLON

\* C38: the disassembler and glyph_run agree on the instruction boundaries:
\* for every instruction glyph_run executes with all its operand bytes
\* inside the memory, disasm_one started at the opcode's offset consumes as
\* many operand bytes as glyph_run has fetched for it.
C38_DisassemblerAgrees ==
    [][(engine = "run" /\ last' # NoTrace /\ Complete(last'))
          => disasm_one(vm.mem, vm.size, last'.at) - (last'.at + 1)
                 = Len(last'.args)]_vars

====
